---- MODULE Spec2Model ----
(***************************************************************************)
(* Model of the image-generation orchestrator of RedInkMore                *)
(* (backend/services/image.py, class ImageService): the two-phase          *)
(* generate_images generator (cover first, then a sequential or pooled     *)
(* fan-out), retry_single_image / regenerate_image, the retry_failed_images*)
(* generator, the in-memory task store and the per-task directories.       *)
(*                                                                         *)
(* A generator only runs when its caller pulls the next event, so each     *)
(* pull (the code between two yields) is one action.  Pool workers         *)
(* (ThreadPoolExecutor) run on their own threads: one action starts a      *)
(* worker's _generate_single_image call and one finishes it.               *)
(***************************************************************************)
EXTENDS Integers, Sequences, FiniteSets, TLC

(* ------------------------------ bounds --------------------------------- *)
\* page indices are 0..MaxIndex
MaxIndex == 2
\* number of service operations (start_generation, retry_page, regenerate,
\* retry_failed_pages) called in one behaviour
MaxOps == 2
\* longest page list of a retry_failed_pages call
MaxRetry == 2
\* the pieces of a chat-completion response content
MaxPieces == 3

(* ------------------------- program constants --------------------------- *)
MAX_CONCURRENT == 15

(* ------------------------------- data ---------------------------------- *)
Tasks == {"t1", "t2"}
Indices == 0..MaxIndex
\* _generate_single_image and generate_images only compare the type with
\* "cover"; "content" stands for every other type ("content", "summary")
Types == {"cover", "content"}
Page == [index : Indices, type : Types]

IsCover(p) == p.type = "cover"
NotCover(p) == p.type # "cover"

\* the page lists an outline yields: indices strictly increasing
\* (OutlineService._parse_outline numbers pages with enumerate and skips
\* empty ones), types as tagged by the text model
IndexSeqs ==
  { s \in UNION { [1..n -> Indices] : n \in 0..(MaxIndex + 1) } :
      \A i, j \in DOMAIN s : i < j => s[i] < s[j] }
PageLists ==
  UNION { { [i \in DOMAIN s |-> [index |-> s[i], type |-> ty[i]]] :
              ty \in [DOMAIN s -> Types] } : s \in IndexSeqs }

\* Optional values: None of each type
NoDir == "<None>"
NoImage == [task |-> "<None>", index |-> -1, size |-> 0]
NoError == [msg |-> "<None>", attempt |-> 0]
NoFilename == [index |-> -1, thumb |-> FALSE]
NoIndex == -1
NoStyle == "<None>"

\* the bytes the generator adapter returns for a page: tagged with the task
\* and page they were requested for, larger than any compression cap
AdapterImage(task_id, index) == [task |-> task_id, index |-> index, size |-> 1000]

\* compress_image(image_data, max_size_kb): re-encode below the size cap
compress_image(image_data, max_size_kb) ==
  [image_data EXCEPT !.size = IF @ > max_size_kb THEN max_size_kb ELSE @]

\* f"{index}.png" and f"thumb_{filename}"
FilenameOf(index) == [index |-> index, thumb |-> FALSE]
ThumbnailOf(filename) == [filename EXCEPT !.thumb = TRUE]

\* dict helpers
EmptyMap == [x \in {} |-> 0]
Put(m, k, v) == [x \in (DOMAIN m) \cup {k} |-> IF x = k THEN v ELSE m[x]]
Del(m, k) == [x \in (DOMAIN m) \ {k} |-> m[x]]
Range(s) == { s[i] : i \in DOMAIN s }
IndexList(ps) == [i \in DOMAIN ps |-> ps[i].index]

(* ------------------------------ state ---------------------------------- *)
VARIABLES
  high_concurrency,  \* provider_config['high_concurrency'], fixed at construction
  task_states,       \* self._task_states: task_id -> state dict
  current_task_dir,  \* self.current_task_dir
  disk,              \* history/<task_id>/<filename> -> bytes
  gen,               \* the generator object being consumed and its locals
  pool,              \* the ThreadPoolExecutor of the running fan-out / retry batch
  events,            \* the events yielded to the caller by the current stream
  ret,               \* return value of the last retry_single_image call
  nops,              \* operations called so far
  provider_type,     \* provider_config['type'], fixed at construction
  calls,             \* the generator.generate_image calls of the current operation
  cover_of,          \* not program state: task_id -> index of the page the
                     \* task's latest run took as its cover
  active_brand,      \* BrandService.get_active_style_prompt(): the active
                     \* brand's style prompt, or None
  api_key,           \* self.generator.api_key is set: the provider
                     \* configuration has a non-empty api_key
  chat,              \* the last chat-completion response a generator
                     \* parsed: its message content and the outcome
  prompt,            \* the last prompt _generate_single_image built, with
                     \* the arguments it was built from
  history            \* HistoryService: a record file and its index entry

vars == <<high_concurrency, task_states, current_task_dir, disk, gen, pool,
          events, ret, nops, provider_type, calls, cover_of, active_brand,
          api_key, chat, prompt, history>>

\* the state of the services the image service works with, and what is
\* recorded of single calls
collaborators == <<active_brand, api_key, chat, prompt, history>>
\* the image service, its files and the call it is serving
service == <<high_concurrency, task_states, current_task_dir, disk, gen, pool,
             events, ret, nops, provider_type, calls, cover_of>>

NoGen ==
  [op |-> "none", pc |-> "none", task_id |-> "", pages |-> <<>>, total |-> 0,
   cover_page |-> <<>>, other_pages |-> <<>>, generated_images |-> <<>>,
   failed_pages |-> <<>>, cover_image_data |-> NoImage, k |-> 0,
   reference_image |-> NoImage, success_count |-> 0, failed_count |-> 0,
   \* not a local of the code: the keys of the task's `failed` map when a
   \* retry_failed_images stream read the task state
   failed_before |-> {},
   \* the local brand_style, and how many times the operation has called
   \* _get_active_brand_style (not a local of the code)
   brand_style |-> NoStyle, brand_queries |-> 0]

NoPool ==
  [futures |-> <<>>, done_order |-> <<>>, ac_called |-> FALSE,
   ac_initial |-> {}, ac_finished |-> {}, yielded |-> {}]

\* called, task_id, use_reference, reference_image and was_failed are not
\* part of the returned dict: they record the call it answers
NoRet == [success |-> FALSE, index |-> NoIndex, filename |-> NoFilename,
          error |-> NoError, reference_image |-> NoImage, called |-> FALSE,
          task_id |-> "", was_failed |-> FALSE, use_reference |-> FALSE,
          brand_queries |-> 0]

EmptyDisk == [d \in Tasks |-> EmptyMap]

\* the error an adapter failure of the current operation raises
AdapterError == [msg |-> "adapter error", attempt |-> nops]
\* ValueError("任务目录未设置") of _save_image
DirUnsetError == [msg |-> "task dir unset", attempt |-> nops]

(* ------------------------------ events --------------------------------- *)
Ev(event, data) == [event |-> event, data |-> data]
ProgressEv(index, phase) ==
  Ev("progress", [index |-> index, status |-> "generating", phase |-> phase])
BatchStartEv ==
  Ev("progress", [index |-> NoIndex, status |-> "batch_start", phase |-> "content"])
CompleteEv(task_id, index, filename, phase) ==
  Ev("complete", [index |-> index, status |-> "done",
                  image_url |-> <<task_id, filename>>, phase |-> phase])
ErrorEv(index, error, phase) ==
  Ev("error", [index |-> index, status |-> "error", message |-> error,
               retryable |-> TRUE, phase |-> phase])
\* a variant of the summary that calls a run a success when it generated
\* anything
FinishEv_anyDone(g) ==
  Ev("finish", [success |-> Len(g.generated_images) > 0, task_id |-> g.task_id,
                images |-> g.generated_images, total |-> g.total,
                completed |-> Len(g.generated_images),
                failed |-> Len(g.failed_pages),
                failed_indices |-> IndexList(g.failed_pages)])

FinishEv(g) ==
  Ev("finish", [success |-> Len(g.failed_pages) = 0, task_id |-> g.task_id,
                images |-> g.generated_images, total |-> g.total,
                completed |-> Len(g.generated_images),
                failed |-> Len(g.failed_pages),
                failed_indices |-> IndexList(g.failed_pages)])

(* ------------------- _save_image, _generate_single_image --------------- *)
\* lines 183-217: the branch taken on provider_config['type']; every type
\* but the first two takes the last branch
ProviderTypes == {"google_genai", "image_api", "openai_compatible"}

\* the generators' __init__ for a configuration of the type, with or
\* without an api_key (base_url given): GoogleGenAIGenerator and
\* OpenAICompatibleGenerator raise ValueError without a key,
\* ImageApiGenerator checks nothing
GeneratorInit(type, key) ==
  IF type = "image_api" \/ key THEN "constructed" ELSE "ValueError"

\* ImageApiGenerator.validate_config, the first statement of its
\* generate_image: raises without a key
validate_config(key) == IF key THEN "valid" ELSE "ValueError"

\* whether generator.generate_image can return bytes (TRUE) or raise
\* (FALSE): without a key it raises
AdapterOutcomes ==
  IF validate_config(api_key) = "valid" THEN BOOLEAN ELSE {FALSE}

\* the cover reference generator.generate_image receives: reference_image
\* (google_genai), the last of reference_images (image_api), none (else)
AdapterReference(reference_image) ==
  IF provider_type \in {"google_genai", "image_api"}
  THEN reference_image
  ELSE NoImage

\* one _generate_single_image call and its generator.generate_image call:
\* the reference_image argument, the reference the adapter receives, and
\* brand_style: the style the prompt is prefixed with (lines 179-180), and
\* ok: the adapter returned bytes
AdapterCall(task_id, page, reference_image, brand_style, ok) ==
  [task_id |-> task_id, index |-> page.index,
   reference_image |-> reference_image,
   adapter_reference |-> AdapterReference(reference_image),
   brand_style |-> brand_style, ok |-> ok]

\* _save_image(image_data, filename, task_dir): the file and its thumbnail
\* (task_dir is never None where this is used: see GenerateSingleResult)
save_image(d, image_data, filename, task_dir) ==
  [d EXCEPT ![task_dir] =
     Put(Put(@, filename, image_data),
         ThumbnailOf(filename), compress_image(image_data, 50))]

\* _generate_single_image(page, task_id, ...) -> (index, success, filename, error)
\* ok: whether the adapter call returned bytes.  The image is saved under
\* self.current_task_dir (the task_id argument is not used for the path);
\* _save_image raises when that is None and the exception becomes the result.
GenerateSingleResult(page, ok, dir) ==
  IF ~ok THEN
    [index |-> page.index, success |-> FALSE, filename |-> NoFilename,
     error |-> AdapterError]
  ELSE IF dir = NoDir THEN
    [index |-> page.index, success |-> FALSE, filename |-> NoFilename,
     error |-> DirUnsetError]
  ELSE
    [index |-> page.index, success |-> TRUE,
     filename |-> FilenameOf(page.index), error |-> NoError]

GenerateSingleDisk(d, page, task_id, ok, dir) ==
  IF ok /\ dir # NoDir
  THEN save_image(d, AdapterImage(task_id, page.index), FilenameOf(page.index), dir)
  ELSE d

(* ---------------- _generate_single_image: the prompt ------------------- *)
\* a text argument: None, the empty string, or a text
NoText == "<None>"
Texts == {NoText, "", "text A", "text B"}
\* Python truth of an Optional[str]
Truthy(text) == text \notin {NoText, ""}
\* str.format renders None as the word None
Format(text) == IF text = NoText THEN "None" ELSE text
\* the literal of line 175 ("not provided", in Chinese)
NotProvided == "not provided"

\* lines 161-181: the short template when the provider asks for it and the
\* template file is there, else the full template filled with the outline
\* as given and with the topic or the literal; the brand style in front
BuildPrompt(full_outline, user_topic, brand_style, short) ==
  [template |-> IF short THEN "short" ELSE "full",
   full_outline |-> IF short THEN NoText ELSE Format(full_outline),
   user_topic |-> IF short THEN NoText
                  ELSE IF Truthy(user_topic) THEN Format(user_topic)
                  ELSE NotProvided,
   prefix |-> IF brand_style # NoStyle THEN brand_style ELSE NoStyle]

NoPrompt ==
  [args |-> [full_outline |-> NoText, user_topic |-> NoText], built |-> FALSE,
   text |-> BuildPrompt(NoText, NoText, NoStyle, TRUE)]

\* one prompt construction of _generate_single_image
GeneratePrompt(full_outline, user_topic, brand_style, short) ==
  /\ prompt' = [args |-> [full_outline |-> full_outline, user_topic |-> user_topic],
                built |-> TRUE,
                text |-> BuildPrompt(full_outline, user_topic, brand_style, short)]
  /\ UNCHANGED <<service, active_brand, api_key, chat, history>>

(* ------------------- _generate_via_chat_api: the response -------------- *)
\* the message content of a chat-completion response, as the pieces the
\* parsing tells apart: a markdown image with an http(s) URL, a markdown
\* image with a base64 data URI, a data URI, an http(s) URL, other text
Pieces == {"md_url", "md_base64", "data_uri", "url", "text"}
Contents == UNION { [1..n -> Pieces] : n \in 0..MaxPieces }

\* re.findall(pattern, content): the positions of the pieces of one kind
FindAll(content, piece) == { i \in DOMAIN content : content[i] = piece }
\* content.startswith(...)
StartsWith(content, piece) == content # <<>> /\ content[1] = piece
Min(S) == CHOOSE i \in S : \A j \in S : i <= j

\* the outcomes: the image downloaded from, or decoded from, the piece at a
\* position, or the exception that carries the response
Download(i) == [how |-> "download", piece |-> i]
Decode(i) == [how |-> "b64decode", piece |-> i]
NoImageData(content) == [how |-> "error", piece |-> 0, raw |-> content]

\* ImageApiGenerator._generate_via_chat_api, lines 284-327
ImageApiParse(content) ==
  IF FindAll(content, "md_url") # {}
  THEN Download(Min(FindAll(content, "md_url")))
  ELSE IF FindAll(content, "md_base64") # {}
  THEN Decode(Min(FindAll(content, "md_base64")))
  ELSE IF StartsWith(content, "data_uri") THEN Decode(1)
  ELSE IF StartsWith(content, "url") THEN Download(1)
  ELSE NoImageData(content)

\* OpenAICompatibleGenerator._generate_via_chat_api, lines 320-355, with
\* _extract_markdown_image_urls
OpenAiCompatibleParse(content) ==
  IF FindAll(content, "md_url") # {}
  THEN Download(Min(FindAll(content, "md_url")))
  ELSE IF StartsWith(content, "data_uri") THEN Decode(1)
  ELSE IF StartsWith(content, "url") THEN Download(1)
  ELSE NoImageData(content)

ChatGenerators == {"ImageApiGenerator", "OpenAICompatibleGenerator"}
NoChat == [generator |-> "none", content |-> <<>>, outcome |-> NoImageData(<<>>)]

\* a generator receives a chat-completion response and parses it
ChatResponse(generator, content) ==
  /\ chat' = [generator |-> generator, content |-> content,
              outcome |-> IF generator = "ImageApiGenerator"
                          THEN ImageApiParse(content)
                          ELSE OpenAiCompatibleParse(content)]
  /\ UNCHANGED <<service, active_brand, api_key, prompt, history>>

(* ----------------------- HistoryService: a record ---------------------- *)
\* RecordStatus (history.py lines 17-23)
RecordStatuses == {"draft", "generating", "partial", "completed", "error"}
\* the status argument of update_record: None, or any string of the request
NoStatus == "<None>"
StatusArgs == RecordStatuses \cup {NoStatus, ""}

\* no record yet; previous is not program state: the status the record
\* file held before the latest write that changed it
NoRecord ==
  [exists |-> FALSE, status |-> "new", index_status |-> "new",
   previous |-> "new", task_id |-> "", page_count |-> 0, generated |-> {}]

(* --------------------------- generate_images --------------------------- *)
\* lines 290-303: the scan keeps the last page typed "cover" as cover_page
\* and appends every other-typed page to other_pages; without a cover the
\* first page is the cover and the rest are the other pages
ScanCover(pages) ==
  LET covers == SelectSeq(pages, IsCover)
  IN  IF covers = <<>> THEN <<>> ELSE <<covers[Len(covers)]>>

\* a variant of the scan that takes the first page as the cover whatever
\* the pages' types are
CoverPageOf_first(pages) ==
  IF Len(pages) > 0 THEN <<pages[1]>> ELSE <<>>

CoverPageOf(pages) ==
  IF ScanCover(pages) = <<>> /\ Len(pages) > 0
  THEN <<pages[1]>>
  ELSE ScanCover(pages)

\* a variant of the fallback that numbers the remaining pages by position
OtherPagesOf_renumbered(pages) ==
  IF ScanCover(pages) = <<>> /\ Len(pages) > 0
  THEN [i \in 1..(Len(pages) - 1) |-> [pages[i + 1] EXCEPT !.index = i]]
  ELSE SelectSeq(pages, NotCover)

\* a variant of the partition that hands the other pages over last first
OtherPagesOf_reversed(pages) ==
  LET others == IF ScanCover(pages) = <<>> /\ Len(pages) > 0
                THEN Tail(pages)
                ELSE SelectSeq(pages, NotCover)
  IN  [i \in DOMAIN others |-> others[Len(others) + 1 - i]]

OtherPagesOf(pages) ==
  IF ScanCover(pages) = <<>> /\ Len(pages) > 0
  THEN Tail(pages)
  ELSE SelectSeq(pages, NotCover)

\* no operation is running: no generator is being consumed and every pool
\* worker has returned (closing a generator waits for its executor)
PoolDrained == \A i \in DOMAIN pool.futures : pool.futures[i].state = "done"
Idle == gen.pc \in {"none", "finished", "abandoned"} /\ PoolDrained

\* the service after construction
InitService ==
  /\ high_concurrency \in BOOLEAN
  /\ provider_type \in ProviderTypes
  /\ calls = {}
  /\ cover_of = [t \in Tasks |-> NoIndex]
  /\ task_states = EmptyMap
  /\ current_task_dir = NoDir
  /\ disk = EmptyDisk
  /\ gen = NoGen
  /\ pool = NoPool
  /\ events = <<>>
  /\ ret = NoRet
  /\ nops = 0

\* no brand is active and the provider configuration has its api_key
Init == InitService /\ active_brand = NoStyle /\ api_key = TRUE /\ chat = NoChat
        /\ prompt = NoPrompt /\ history = NoRecord

\* start_generation: calling generate_images creates the generator; nothing
\* of its body runs before the first pull
StartGeneration(task_id, pages) ==
  /\ Idle
  /\ nops < MaxOps
  /\ nops' = nops + 1
  /\ gen' = [NoGen EXCEPT !.op = "generate", !.pc = "start",
                          !.task_id = task_id, !.pages = pages]
  /\ pool' = NoPool
  /\ events' = <<>>
  /\ ret' = NoRet
  /\ calls' = {}
  /\ UNCHANGED <<collaborators,
                 high_concurrency, provider_type, cover_of, task_states,
                 current_task_dir, disk>>

\* first pull, lines 253-317 (or to the finish event when pages is empty)
GenStart ==
  /\ gen.op = "generate" /\ gen.pc = "start"
  /\ current_task_dir' = gen.task_id
  /\ task_states' = Put(task_states, gen.task_id,
        [pages |-> gen.pages, generated |-> EmptyMap, failed |-> EmptyMap,
         cover_image |-> NoImage,
         \* the run's inputs, opaque: each stands for the value the
         \* operation numbered nops was given
         full_outline |-> nops, user_images |-> nops, user_topic |-> nops,
         \* line 274: the brand style active now
         brand_style |-> active_brand])
  /\ LET g == [gen EXCEPT !.total = Len(gen.pages),
                          !.brand_style = active_brand,
                          !.brand_queries = 1,
                          !.cover_page = CoverPageOf(gen.pages),
                          !.other_pages = OtherPagesOf(gen.pages)]
     IN  IF g.cover_page # <<>>
         THEN /\ gen' = [g EXCEPT !.pc = "cover"]
              /\ events' = Append(events, ProgressEv(g.cover_page[1].index, "cover"))
         ELSE /\ gen' = [g EXCEPT !.pc = "finished"]
              /\ events' = Append(events, FinishEv(g))
  /\ cover_of' = [cover_of EXCEPT ![gen.task_id] =
                  IF CoverPageOf(gen.pages) # <<>>
                  THEN CoverPageOf(gen.pages)[1].index
                  ELSE NoIndex]
  /\ UNCHANGED <<collaborators,
                 high_concurrency, provider_type, calls, disk, pool, ret, nops>>

\* record a finished generation of `page` in the run's locals and task state
\* (lines 325-327 / 347-349, 417-419 / 431-432, 498-500 / 512-513)
RecordResult(g, page, r) ==
  IF r.success
  THEN [g EXCEPT !.generated_images = Append(@, r.filename)]
  ELSE [g EXCEPT !.failed_pages = Append(@, page)]

\* a variant of the recording that keeps no entry for a failed page
RecordInTask_successOnly(ts, task_id, r) ==
  IF r.success
  THEN [ts EXCEPT ![task_id].generated = Put(@, r.index, r.filename)]
  ELSE ts

RecordInTask(ts, task_id, r) ==
  IF r.success
  THEN [ts EXCEPT ![task_id].generated = Put(@, r.index, r.filename)]
  ELSE [ts EXCEPT ![task_id].failed = Put(@, r.index, r.error)]

ResultEv(task_id, r, phase) ==
  IF r.success
  THEN CompleteEv(task_id, r.index, r.filename, phase)
  ELSE ErrorEv(r.index, r.error, phase)

\* second pull, lines 319-360: the cover is generated in the caller's thread
GenCover(ok) ==
  /\ gen.op = "generate" /\ gen.pc = "cover"
  /\ LET page == gen.cover_page[1]
         r == GenerateSingleResult(page, ok, current_task_dir)
         d == GenerateSingleDisk(disk, page, gen.task_id, ok, current_task_dir)
         g == RecordResult(gen, page, r)
         ts == RecordInTask(task_states, gen.task_id, r)
         \* lines 330-336: the saved cover is read back and compressed
         cover == compress_image(d[current_task_dir][r.filename], 200)
     IN  /\ disk' = d
         /\ IF r.success
            THEN /\ gen' = [g EXCEPT !.pc = "after_cover", !.cover_image_data = cover]
                 /\ task_states' = [ts EXCEPT ![gen.task_id].cover_image = cover]
            ELSE /\ gen' = [g EXCEPT !.pc = "after_cover"]
                 /\ task_states' = ts
         /\ events' = Append(events, ResultEv(gen.task_id, r, "cover"))
  /\ calls' = calls \cup {AdapterCall(gen.task_id, gen.cover_page[1], NoImage,
                                       gen.brand_style, ok)}
  /\ UNCHANGED <<collaborators,
                 high_concurrency, provider_type, cover_of, current_task_dir,
                 pool,
                 ret, nops>>

\* a variant of the third pull that ends the run when the cover has failed
GenAfterCover_abort ==
  /\ gen.op = "generate" /\ gen.pc = "after_cover"
  /\ IF gen.other_pages # <<>> /\ gen.failed_pages = <<>>
     THEN /\ gen' = [gen EXCEPT !.pc = IF high_concurrency THEN "hc_submit"
                                                            ELSE "seq_next",
                                !.k = 1]
          /\ events' = Append(events, BatchStartEv)
     ELSE /\ gen' = [gen EXCEPT !.pc = "finished"]
          /\ events' = Append(events, FinishEv(gen))
  /\ UNCHANGED <<collaborators,
                 high_concurrency, provider_type, cover_of, calls, task_states,
                 current_task_dir, disk, pool, ret, nops>>

\* third pull, lines 363-378 / 462-471 / 527: batch_start, or finish when
\* there are no other pages
GenAfterCover ==
  /\ gen.op = "generate" /\ gen.pc = "after_cover"
  /\ IF gen.other_pages # <<>>
     THEN /\ gen' = [gen EXCEPT !.pc = IF high_concurrency THEN "hc_submit"
                                                            ELSE "seq_next",
                                !.k = 1]
          /\ events' = Append(events, BatchStartEv)
     ELSE /\ gen' = [gen EXCEPT !.pc = "finished"]
          /\ events' = Append(events, FinishEv(gen))
  /\ UNCHANGED <<collaborators,
                 high_concurrency, provider_type, cover_of, calls, task_states,
                 current_task_dir, disk, pool,
                 ret, nops>>

\* sequential mode, lines 473-484 and 527: the next page's progress event,
\* or the finish event after the last page
GenSeqNext ==
  /\ gen.op = "generate" /\ gen.pc = "seq_next"
  /\ IF gen.k <= Len(gen.other_pages)
     THEN /\ gen' = [gen EXCEPT !.pc = "seq_generate"]
          /\ events' = Append(events, ProgressEv(gen.other_pages[gen.k].index, "content"))
     ELSE /\ gen' = [gen EXCEPT !.pc = "finished"]
          /\ events' = Append(events, FinishEv(gen))
  /\ UNCHANGED <<collaborators,
                 high_concurrency, provider_type, cover_of, calls, task_states,
                 current_task_dir, disk, pool,
                 ret, nops>>

\* a variant of the sequential step that gives up the remaining pages when
\* a page fails
GenSeqGenerate_stop(ok) ==
  /\ gen.op = "generate" /\ gen.pc = "seq_generate"
  /\ LET page == gen.other_pages[gen.k]
         r == GenerateSingleResult(page, ok, current_task_dir)
     IN  /\ disk' = GenerateSingleDisk(disk, page, gen.task_id, ok, current_task_dir)
         /\ gen' = [RecordResult(gen, page, r) EXCEPT
                      !.pc = "seq_next",
                      !.k = IF r.success THEN @ + 1 ELSE Len(gen.other_pages) + 1]
         /\ task_states' = RecordInTask(task_states, gen.task_id, r)
         /\ events' = Append(events, ResultEv(gen.task_id, r, "content"))
  /\ calls' = calls \cup {AdapterCall(gen.task_id, gen.other_pages[gen.k],
                                       gen.cover_image_data, gen.brand_style, ok)}
  /\ UNCHANGED <<collaborators,
                 high_concurrency, provider_type, cover_of, current_task_dir,
                 pool,
                 ret, nops>>

\* a variant of the sequential step that calls the adapter a second time
\* when the first call fails
GenSeqGenerate_again(ok) ==
  /\ gen.op = "generate" /\ gen.pc = "seq_generate"
  /\ LET page == gen.other_pages[gen.k]
         r == GenerateSingleResult(page, TRUE, current_task_dir)
     IN  /\ disk' = GenerateSingleDisk(disk, page, gen.task_id, TRUE, current_task_dir)
         /\ gen' = [RecordResult(gen, page, r) EXCEPT !.pc = "seq_next", !.k = @ + 1]
         /\ task_states' = RecordInTask(task_states, gen.task_id, r)
         /\ events' = Append(events, ResultEv(gen.task_id, r, "content"))
  /\ calls' = calls \cup {AdapterCall(gen.task_id, gen.other_pages[gen.k],
                                       gen.cover_image_data, gen.brand_style, ok),
                          AdapterCall(gen.task_id, gen.other_pages[gen.k],
                                       gen.cover_image_data, gen.brand_style, TRUE)}
  /\ UNCHANGED <<collaborators, high_concurrency, provider_type, cover_of,
                 current_task_dir, pool, ret, nops>>

\* sequential mode, lines 486-524: generate the page in the caller's thread
GenSeqGenerate(ok) ==
  /\ gen.op = "generate" /\ gen.pc = "seq_generate"
  /\ LET page == gen.other_pages[gen.k]
         r == GenerateSingleResult(page, ok, current_task_dir)
     IN  /\ disk' = GenerateSingleDisk(disk, page, gen.task_id, ok, current_task_dir)
         /\ gen' = [RecordResult(gen, page, r) EXCEPT !.pc = "seq_next", !.k = @ + 1]
         /\ task_states' = RecordInTask(task_states, gen.task_id, r)
         /\ events' = Append(events, ResultEv(gen.task_id, r, "content"))
  /\ calls' = calls \cup {AdapterCall(gen.task_id, gen.other_pages[gen.k],
                                       gen.cover_image_data, gen.brand_style, ok)}
  /\ UNCHANGED <<collaborators,
                 high_concurrency, provider_type, cover_of, current_task_dir,
                 pool,
                 ret, nops>>

(* ------------------------- the worker pool ----------------------------- *)
\* executor.submit(self._generate_single_image, page, task_id, reference, ...)
\* for every page of `pages`
Submit(pages, task_id, reference_image) ==
  [NoPool EXCEPT !.futures =
     [i \in DOMAIN pages |->
        [page |-> pages[i], task_id |-> task_id,
         reference_image |-> reference_image, state |-> "queued",
         result |-> GenerateSingleResult(pages[i], FALSE, NoDir)]]]

Running == { i \in DOMAIN pool.futures : pool.futures[i].state = "running" }
Finished == { i \in DOMAIN pool.futures : pool.futures[i].state = "done" }

\* a variant of the pool that starts a thread for every submitted call
WorkerStart_uncapped(i) ==
  /\ i \in DOMAIN pool.futures
  /\ pool.futures[i].state = "queued"
  /\ pool' = [pool EXCEPT !.futures[i].state = "running"]
  /\ UNCHANGED <<collaborators,
                 high_concurrency, provider_type, cover_of, calls, task_states,
                 current_task_dir, disk, gen, events, ret, nops>>

\* a pool thread takes a queued call: at most max_workers threads exist
WorkerStart(i) ==
  /\ i \in DOMAIN pool.futures
  /\ pool.futures[i].state = "queued"
  /\ Cardinality(Running) < MAX_CONCURRENT
  /\ pool' = [pool EXCEPT !.futures[i].state = "running"]
  /\ UNCHANGED <<collaborators,
                 high_concurrency, provider_type, cover_of, calls, task_states,
                 current_task_dir, disk, gen,
                 events, ret, nops>>

\* a variant of the worker that records its own result in the task's maps
WorkerFinish_recording(i, ok) ==
  /\ i \in DOMAIN pool.futures
  /\ pool.futures[i].state = "running"
  /\ LET f == pool.futures[i]
         r == GenerateSingleResult(f.page, ok, current_task_dir)
     IN  /\ pool' = [pool EXCEPT !.futures[i].state = "done",
                                 !.futures[i].result = r,
                                 !.done_order = Append(@, i)]
         /\ disk' = GenerateSingleDisk(disk, f.page, f.task_id, ok, current_task_dir)
         /\ task_states' = IF f.task_id \in DOMAIN task_states
                           THEN RecordInTask(task_states, f.task_id, r)
                           ELSE task_states
  /\ calls' = calls \cup {AdapterCall(pool.futures[i].task_id, pool.futures[i].page,
                                       pool.futures[i].reference_image,
                                       gen.brand_style, ok)}
  /\ UNCHANGED <<collaborators, high_concurrency, provider_type, cover_of,
                 current_task_dir, gen, events, ret, nops>>

\* the call returns in the pool thread: the image is saved there, under the
\* service's current_task_dir; the future completes
WorkerFinish(i, ok) ==
  /\ i \in DOMAIN pool.futures
  /\ pool.futures[i].state = "running"
  /\ LET f == pool.futures[i]
     IN  /\ pool' = [pool EXCEPT
                       !.futures[i].state = "done",
                       !.futures[i].result =
                          GenerateSingleResult(f.page, ok, current_task_dir),
                       !.done_order = Append(@, i)]
         /\ disk' = GenerateSingleDisk(disk, f.page, f.task_id, ok, current_task_dir)
  /\ calls' = calls \cup {AdapterCall(pool.futures[i].task_id, pool.futures[i].page,
                                       pool.futures[i].reference_image,
                                       gen.brand_style, ok)}
  /\ UNCHANGED <<collaborators,
                 high_concurrency, provider_type, cover_of, task_states,
                 current_task_dir, gen, events,
                 ret, nops>>

\* as_completed(future_to_page): the futures already finished when it is
\* called are yielded first, in no particular order (a set); the others in
\* the order in which they finish
AcFinished == IF pool.ac_called THEN pool.ac_finished ELSE Finished
AcLater ==
  SelectSeq(pool.done_order, LAMBDA i : i \notin pool.yielded /\ i \notin AcFinished)
AcCandidates ==
  IF AcFinished # {} THEN AcFinished
  ELSE IF AcLater # <<>> THEN {AcLater[1]} ELSE {}
\* a variant of the collection that forgets the other futures found
\* finished together with the one it yields
AcTake_dropping(i) ==
  [pool EXCEPT !.ac_called = TRUE, !.ac_finished = {},
               !.ac_initial = IF pool.ac_called THEN @ ELSE Finished,
               !.yielded = @ \cup AcFinished \cup {i}]
AcTake(i) ==
  [pool EXCEPT !.ac_called = TRUE, !.ac_finished = AcFinished \ {i},
               !.ac_initial = IF pool.ac_called THEN @ ELSE Finished,
               !.yielded = @ \cup {i}]
AcExhausted == pool.yielded = DOMAIN pool.futures

\* high-concurrency mode, lines 381-409: the pull after batch_start submits
\* every other page to the pool and yields the first page's progress event
GenHcSubmit ==
  /\ gen.op = "generate" /\ gen.pc = "hc_submit"
  /\ pool' = Submit(gen.other_pages, gen.task_id, gen.cover_image_data)
  /\ gen' = [gen EXCEPT !.pc = "hc", !.k = 2]
  /\ events' = Append(events, ProgressEv(gen.other_pages[1].index, "content"))
  /\ UNCHANGED <<collaborators,
                 high_concurrency, provider_type, cover_of, calls, task_states,
                 current_task_dir, disk, ret, nops>>

\* lines 399-409: the remaining progress events, one per pull
GenHcProgress ==
  /\ gen.op = "generate" /\ gen.pc = "hc"
  /\ gen.k <= Len(gen.other_pages)
  /\ gen' = [gen EXCEPT !.k = @ + 1]
  /\ events' = Append(events, ProgressEv(gen.other_pages[gen.k].index, "content"))
  /\ UNCHANGED <<collaborators,
                 high_concurrency, provider_type, cover_of, calls, task_states,
                 current_task_dir, disk, pool,
                 ret, nops>>

\* a variant of the collection that does not wait for the progress loop
GenHcCollect_early(i) ==
  /\ gen.op = "generate" /\ gen.pc = "hc"
  /\ i \in AcCandidates
  /\ LET r == pool.futures[i].result
     IN  /\ gen' = RecordResult(gen, pool.futures[i].page, r)
         /\ task_states' = RecordInTask(task_states, gen.task_id, r)
         /\ events' = Append(events, ResultEv(gen.task_id, r, "content"))
  /\ pool' = AcTake(i)
  /\ UNCHANGED <<collaborators,
                 high_concurrency, provider_type, cover_of, calls,
                 current_task_dir,
                 disk, ret, nops>>

\* lines 412-443: the pull blocks until as_completed yields a future
GenHcCollect(i) ==
  /\ gen.op = "generate" /\ gen.pc = "hc"
  /\ gen.k > Len(gen.other_pages)
  /\ i \in AcCandidates
  /\ LET r == pool.futures[i].result
     IN  /\ gen' = RecordResult(gen, pool.futures[i].page, r)
         /\ task_states' = RecordInTask(task_states, gen.task_id, r)
         /\ events' = Append(events, ResultEv(gen.task_id, r, "content"))
  /\ pool' = AcTake(i)
  /\ UNCHANGED <<collaborators,
                 high_concurrency, provider_type, cover_of, calls,
                 current_task_dir,
                 disk, ret, nops>>

\* line 527: after the last future the executor is shut down, finish follows
GenHcFinish ==
  /\ gen.op = "generate" /\ gen.pc = "hc"
  /\ gen.k > Len(gen.other_pages)
  /\ AcExhausted
  /\ gen' = [gen EXCEPT !.pc = "finished"]
  /\ events' = Append(events, FinishEv(gen))
  /\ UNCHANGED <<collaborators,
                 high_concurrency, provider_type, cover_of, calls, task_states,
                 current_task_dir, disk, pool,
                 ret, nops>>

\* the caller stops pulling at a yield: the generator is closed, the
\* executor's workers are not cancelled
Abandon ==
  /\ gen.op # "none"
  /\ gen.pc \notin {"none", "start", "finished", "abandoned", "rf_wait"}
  /\ gen' = [gen EXCEPT !.pc = "abandoned"]
  /\ UNCHANGED <<collaborators,
                 high_concurrency, provider_type, cover_of, calls, task_states,
                 current_task_dir, disk, pool,
                 events, ret, nops>>

(* --------------- retry_single_image / regenerate_image ----------------- *)
TaskExists(task_id) == task_id \in DOMAIN task_states
FileExists(d, dir, filename) == filename \in DOMAIN d[dir]

\* lines 564-592: the cover reference of a single-page retry: the task's
\* cached cover, else the file 0.png of the task directory, compressed
RetryReference(task_id, use_reference) ==
  LET cached == IF TaskExists(task_id) /\ use_reference
                THEN task_states[task_id].cover_image ELSE NoImage
  IN  IF use_reference /\ cached = NoImage /\ FileExists(disk, task_id, FilenameOf(0))
      THEN compress_image(disk[task_id][FilenameOf(0)], 200)
      ELSE cached

\* lines 566-583 / 641-656: the brand style of a retry: the one cached in
\* the task, and the one active now when that is None or the task is not in
\* the store
CachedBrandStyle(task_id) ==
  IF TaskExists(task_id) THEN task_states[task_id].brand_style ELSE NoStyle
RetryBrandQueries(task_id) == IF CachedBrandStyle(task_id) = NoStyle THEN 1 ELSE 0
RetryBrandStyle(task_id) ==
  IF CachedBrandStyle(task_id) = NoStyle THEN active_brand
                                         ELSE CachedBrandStyle(task_id)

\* a variant of the patch that also takes the retried image as the task's
\* cover reference
PatchTask_cover(ts, task_id, r) ==
  IF r.success /\ task_id \in DOMAIN ts
  THEN [ts EXCEPT ![task_id].generated = Put(@, r.index, r.filename),
                  ![task_id].failed = Del(@, r.index),
                  ![task_id].cover_image =
                     compress_image(AdapterImage(task_id, r.index), 200)]
  ELSE ts

\* lines 605-609 / 691-696: a successful retry patches the task's maps, when
\* the task is in the store; a failed one leaves them as they are
PatchTask(ts, task_id, r) ==
  IF r.success /\ task_id \in DOMAIN ts
  THEN [ts EXCEPT ![task_id].generated = Put(@, r.index, r.filename),
                  ![task_id].failed = Del(@, r.index)]
  ELSE ts

\* retry_single_image(task_id, page, use_reference): one blocking call
RetrySingleImage(task_id, page, use_reference, ok) ==
  /\ Idle
  /\ nops < MaxOps
  /\ nops' = nops + 1
  /\ current_task_dir' = task_id
  /\ LET r == GenerateSingleResult(page, ok, task_id)
     IN  /\ disk' = GenerateSingleDisk(disk, page, task_id, ok, task_id)
         /\ task_states' = PatchTask(task_states, task_id, r)
         /\ ret' = [success |-> r.success, index |-> r.index,
                    filename |-> r.filename,
                    error |-> IF r.success THEN NoError
                              ELSE [r.error EXCEPT !.attempt = nops + 1],
                    reference_image |-> RetryReference(task_id, use_reference),
                    called |-> TRUE, task_id |-> task_id,
                    use_reference |-> use_reference,
                    brand_queries |-> RetryBrandQueries(task_id),
                    was_failed |-> /\ TaskExists(task_id)
                                   /\ page.index \in DOMAIN task_states[task_id].failed]
  /\ gen' = NoGen
  /\ pool' = NoPool
  /\ events' = <<>>
  /\ calls' = {AdapterCall(task_id, page, RetryReference(task_id, use_reference),
                          RetryBrandStyle(task_id), ok)}
  /\ UNCHANGED <<collaborators, high_concurrency, provider_type, cover_of>>

\* retry_single_image called for another task while a stream of the same
\* service instance is being consumed (between two pulls, or while pool
\* threads run): the same code, the stream's generator and pool untouched
RetrySingleImageMeanwhile(task_id, page, use_reference, ok) ==
  /\ ~Idle
  /\ gen.task_id # task_id
  /\ nops < MaxOps
  /\ nops' = nops + 1
  /\ current_task_dir' = task_id
  /\ LET r == GenerateSingleResult(page, ok, task_id)
     IN  /\ disk' = GenerateSingleDisk(disk, page, task_id, ok, task_id)
         /\ task_states' = PatchTask(task_states, task_id, r)
         /\ ret' = [success |-> r.success, index |-> r.index,
                    filename |-> r.filename,
                    error |-> IF r.success THEN NoError
                              ELSE [r.error EXCEPT !.attempt = nops + 1],
                    reference_image |-> RetryReference(task_id, use_reference),
                    called |-> TRUE, task_id |-> task_id,
                    use_reference |-> use_reference,
                    brand_queries |-> RetryBrandQueries(task_id),
                    was_failed |-> /\ TaskExists(task_id)
                                   /\ page.index \in DOMAIN task_states[task_id].failed]
  /\ calls' = calls \cup {AdapterCall(task_id, page,
                                       RetryReference(task_id, use_reference),
                                       RetryBrandStyle(task_id), ok)}
  /\ UNCHANGED <<collaborators, high_concurrency, provider_type, cover_of, gen,
                 pool, events>>

\* regenerate_image delegates to retry_single_image (lines 761-765)
RegenerateImage(task_id, page, use_reference, ok) ==
  RetrySingleImage(task_id, page, use_reference, ok)

(* -------------------------- retry_failed_images ------------------------ *)
RetryStartEv(total) == Ev("retry_start", [total |-> total])
RetryCompleteEv(task_id, index, filename) ==
  Ev("complete", [index |-> index, status |-> "done",
                  image_url |-> <<task_id, filename>>])
RetryErrorEv(index, error) ==
  Ev("error", [index |-> index, status |-> "error", message |-> error,
               retryable |-> TRUE])
\* a variant of the summary that calls a batch a success when it generated
\* anything
RetryFinishEv_anyDone(g) ==
  Ev("retry_finish", [success |-> g.success_count > 0, total |-> g.total,
                      completed |-> g.success_count, failed |-> g.failed_count])

RetryFinishEv(g) ==
  Ev("retry_finish", [success |-> g.failed_count = 0, total |-> g.total,
                      completed |-> g.success_count, failed |-> g.failed_count])

\* calling retry_failed_images creates the generator
RetryFailedImages(task_id, pages) ==
  /\ Idle
  /\ nops < MaxOps
  /\ nops' = nops + 1
  /\ gen' = [NoGen EXCEPT !.op = "retry_failed", !.pc = "rf_start",
                          !.task_id = task_id, !.pages = pages]
  /\ pool' = NoPool
  /\ events' = <<>>
  /\ ret' = NoRet
  /\ calls' = {}
  /\ UNCHANGED <<collaborators,
                 high_concurrency, provider_type, cover_of, task_states,
                 current_task_dir, disk>>

\* first pull, lines 639-668: the cached context is read, retry_start
RfStart ==
  /\ gen.op = "retry_failed" /\ gen.pc = "rf_start"
  /\ gen' = [gen EXCEPT !.pc = "rf_submit", !.total = Len(gen.pages),
                        !.reference_image =
                           IF TaskExists(gen.task_id)
                           THEN task_states[gen.task_id].cover_image
                           ELSE NoImage,
                        !.failed_before =
                           IF TaskExists(gen.task_id)
                           THEN DOMAIN task_states[gen.task_id].failed
                           ELSE {},
                        !.brand_style = RetryBrandStyle(gen.task_id),
                        !.brand_queries = RetryBrandQueries(gen.task_id)]
  /\ events' = Append(events, RetryStartEv(Len(gen.pages)))
  /\ UNCHANGED <<collaborators,
                 high_concurrency, provider_type, cover_of, calls, task_states,
                 current_task_dir, disk, pool,
                 ret, nops>>

\* second pull, lines 670-684: every page is submitted to a new pool; the
\* pull then waits in as_completed
RfSubmit ==
  /\ gen.op = "retry_failed" /\ gen.pc = "rf_submit"
  /\ pool' = Submit(gen.pages, gen.task_id, gen.reference_image)
  /\ gen' = [gen EXCEPT !.pc = "rf_wait"]
  /\ UNCHANGED <<collaborators,
                 high_concurrency, provider_type, cover_of, calls, task_states,
                 current_task_dir, disk, events,
                 ret, nops>>

\* lines 686-716: one result per pull
RfCollect(i) ==
  /\ gen.op = "retry_failed" /\ gen.pc \in {"rf_wait", "rf_collect"}
  /\ i \in AcCandidates
  /\ LET r == pool.futures[i].result
     IN  /\ task_states' = PatchTask(task_states, gen.task_id, r)
         /\ IF r.success
            THEN /\ gen' = [gen EXCEPT !.pc = "rf_collect", !.success_count = @ + 1]
                 /\ events' = Append(events,
                                 RetryCompleteEv(gen.task_id, r.index, r.filename))
            ELSE /\ gen' = [gen EXCEPT !.pc = "rf_collect", !.failed_count = @ + 1]
                 /\ events' = Append(events, RetryErrorEv(r.index, r.error))
  /\ pool' = AcTake(i)
  /\ UNCHANGED <<collaborators,
                 high_concurrency, provider_type, cover_of, calls,
                 current_task_dir,
                 disk, ret, nops>>

\* lines 730-738: retry_finish after the last future
RfFinish ==
  /\ gen.op = "retry_failed" /\ gen.pc \in {"rf_wait", "rf_collect"}
  /\ AcExhausted
  /\ gen' = [gen EXCEPT !.pc = "finished"]
  /\ events' = Append(events, RetryFinishEv(gen))
  /\ UNCHANGED <<collaborators,
                 high_concurrency, provider_type, cover_of, calls, task_states,
                 current_task_dir, disk, pool,
                 ret, nops>>

(* ------- get_task_state, cleanup_task, reset_image_service ------------- *)
\* get_task_state (lines 781-783): the task's state dict, or None
NotFound == [pages |-> "<None>"]
get_task_state(task_id) ==
  IF TaskExists(task_id) THEN task_states[task_id] ELSE NotFound

\* cleanup_task (lines 785-788)
CleanupTask(task_id) ==
  /\ Idle
  /\ task_states' = IF TaskExists(task_id) THEN Del(task_states, task_id)
                                            ELSE task_states
  /\ UNCHANGED <<collaborators,
                 high_concurrency, provider_type, cover_of, calls,
                 current_task_dir, disk, gen, pool, events, ret, nops>>

\* reset_image_service (lines 801-804), called after every configuration
\* update (config_routes._clear_config_cache), and the get_image_service
\* call that follows it: the next request is served by a new ImageService,
\* constructed from the configuration as it then is.  The files stay.
ResetImageService ==
  /\ Idle
  /\ high_concurrency' \in BOOLEAN
  /\ provider_type' \in ProviderTypes
  /\ task_states' = EmptyMap
  /\ current_task_dir' = NoDir
  /\ gen' = NoGen
  /\ pool' = NoPool
  /\ events' = <<>>
  /\ ret' = NoRet
  /\ calls' = {}
  /\ UNCHANGED <<collaborators, cover_of, disk, nops>>

(* ---------------------------- HistoryService --------------------------- *)
\* create_record(topic, outline, task_id), lines 89-155
CreateRecord(task_id, page_count) ==
  /\ ~history.exists
  /\ history' = [exists |-> TRUE, status |-> "draft", index_status |-> "draft",
                 previous |-> "new", task_id |-> task_id,
                 page_count |-> page_count, generated |-> {}]
  /\ UNCHANGED <<service, active_brand, api_key, chat, prompt>>

\* update_record(record_id, images, status), lines 238-302: the record
\* file takes every status that is not None, the index entry every status
\* that is true
update_record(h, generated, status) ==
  [h EXCEPT !.status = IF status # NoStatus THEN status ELSE @,
            !.previous = IF status # NoStatus /\ status # h.status
                         THEN h.status ELSE @,
            !.index_status = IF status \notin {NoStatus, ""} THEN status ELSE @,
            !.generated = generated]

UpdateRecord(status) ==
  /\ history.exists
  /\ history' = update_record(history, history.generated, status)
  /\ UNCHANGED <<service, active_brand, api_key, chat, prompt>>

\* the task directory is there: generate_images and retry_single_image
\* make it (os.makedirs, lines 259-260 and 561-562 of image.py)
DirExists(task_id) ==
  task_id = current_task_dir \/ TaskExists(task_id) \/ disk[task_id] # EmptyMap
\* the image files of the directory, thumbnails left out
ImageFiles(task_id) == { f \in DOMAIN disk[task_id] : ~f.thumb }

\* scan_and_sync_task_images(task_id), lines 445-556
ScanStatus(actual_count, expected_count) ==
  IF actual_count = 0 THEN "draft"
  ELSE IF actual_count >= expected_count THEN "completed"
  ELSE "partial"

ScanAndSyncTaskImages(task_id) ==
  /\ DirExists(task_id)
  /\ history' =
       IF history.exists /\ history.task_id = task_id
       THEN update_record(history, ImageFiles(task_id),
                          ScanStatus(Cardinality(ImageFiles(task_id)),
                                     history.page_count))
       ELSE history
  /\ UNCHANGED <<service, active_brand, api_key, chat, prompt>>

(* ----------------------------- BrandService ---------------------------- *)
\* what get_active_style_prompt can return: None (no active brand, or one
\* without a style prompt) or a style prompt
BrandStyles == {NoStyle, "style A", "style B"}

\* activate_brand, update_style_dna, delete_brand (brand.py): the style
\* prompt of the active brand becomes another one
ActivateBrand(style) ==
  /\ style \in BrandStyles \ {active_brand}
  /\ active_brand' = style
  /\ UNCHANGED <<service, api_key, chat, prompt, history>>

(* --------------------------- specifications ---------------------------- *)
\* task ids are opaque: an operation names a task already named, or the
\* first one not named yet
TaskOrder == <<"t1", "t2">>
UsedTasks == (DOMAIN task_states) \cup ({current_task_dir} \ {NoDir})
NameableTasks ==
  { TaskOrder[i] : i \in { j \in DOMAIN TaskOrder :
                             \A h \in 1..(j - 1) : TaskOrder[h] \in UsedTasks } }
\* the pages handed to a retry: the retry code reads a page's type only to
\* fill its prompt, so one type stands for all
RetryPages == { p \in Page : p.type = "content" }
RetryLists ==
  { ps \in PageLists :
      ps # <<>> /\ Len(ps) <= MaxRetry /\ Range(ps) \subseteq RetryPages }

\* the steps of a consumed stream and of the pool
StreamStep ==
  \/ GenStart
  \/ \E ok \in AdapterOutcomes : GenCover(ok)
  \/ GenAfterCover
  \/ GenSeqNext
  \/ \E ok \in AdapterOutcomes : GenSeqGenerate(ok)
  \/ GenHcSubmit
  \/ GenHcProgress
  \/ \E i \in DOMAIN pool.futures : GenHcCollect(i)
  \/ GenHcFinish
  \/ \E i \in DOMAIN pool.futures : WorkerStart(i)
  \/ \E i \in DOMAIN pool.futures, ok \in AdapterOutcomes : WorkerFinish(i, ok)

\* operations called one after the other on one service, each stream
\* consumed to its end
Next ==
  \/ \E t \in NameableTasks, ps \in PageLists : StartGeneration(t, ps)
  \/ StreamStep
  \/ \E t \in NameableTasks, p \in RetryPages, u \in BOOLEAN, ok \in AdapterOutcomes :
       RetrySingleImage(t, p, u, ok)
  \/ \E t \in NameableTasks, p \in RetryPages, u \in BOOLEAN, ok \in AdapterOutcomes :
       RegenerateImage(t, p, u, ok)
  \/ \E t \in NameableTasks, ps \in RetryLists : RetryFailedImages(t, ps)
  \/ RfStart
  \/ RfSubmit
  \/ \E i \in DOMAIN pool.futures : RfCollect(i)
  \/ RfFinish

\* the operations do not read the provider type, only the adapter call
\* does: one provider type stands for all where operations are sequenced
InitOne == Init /\ provider_type = "google_genai"

Spec == InitOne /\ [][Next]_vars

\* one start_generation run on a new service, which its caller may abandon
NextRun ==
  \/ \E ps \in PageLists : nops = 0 /\ StartGeneration(TaskOrder[1], ps)
  \/ StreamStep
  \/ Abandon

SpecRun == Init /\ [][NextRun]_vars

\* one start_generation run whose caller keeps pulling events, whose pool
\* threads keep running and whose adapter calls all return
Pull ==
  \/ GenStart
  \/ \E ok \in AdapterOutcomes : GenCover(ok)
  \/ GenAfterCover
  \/ GenSeqNext
  \/ \E ok \in AdapterOutcomes : GenSeqGenerate(ok)
  \/ GenHcSubmit
  \/ GenHcProgress
  \/ \E i \in DOMAIN pool.futures : GenHcCollect(i)
  \/ GenHcFinish
PoolStart == \E i \in DOMAIN pool.futures : WorkerStart(i)
PoolFinish == \E i \in DOMAIN pool.futures, ok \in AdapterOutcomes : WorkerFinish(i, ok)

NextLive ==
  \/ \E ps \in PageLists : nops = 0 /\ StartGeneration(TaskOrder[1], ps)
  \/ Pull
  \/ PoolStart
  \/ PoolFinish

SpecLive ==
  /\ Init
  /\ [][NextLive]_vars
  /\ WF_vars(Pull) /\ WF_vars(PoolStart) /\ WF_vars(PoolFinish)

\* a batch one page larger than the pool, as a high-concurrency run (after
\* its cover) and then as a retry_failed_pages batch.  The interleaving of the
\* caller's pulls, the threads' starts and the calls' returns is free; the
\* threads take the calls in submission order, the calls return in the
\* order in which they started, and finished results are collected lowest
\* first.
CapPages ==
  [i \in 1..(MAX_CONCURRENT + 1) |-> [index |-> i, type |-> "content"]]
CapRunPages == <<[index |-> 0, type |-> "cover"]>> \o CapPages
Queued == { i \in DOMAIN pool.futures : pool.futures[i].state = "queued" }
CapStart ==
  \E i \in DOMAIN pool.futures :
    (\A j \in 1..(i - 1) : j \notin Queued) /\ WorkerStart(i)
CapFinish ==
  \E i \in DOMAIN pool.futures :
    (\A j \in 1..(i - 1) : j \in Finished) /\ WorkerFinish(i, TRUE)
CapCollect ==
  \E i \in DOMAIN pool.futures :
    /\ \A j \in AcCandidates : i <= j
    /\ (GenHcCollect(i) \/ RfCollect(i))
CapPull ==
  \/ GenStart
  \/ GenCover(TRUE)
  \/ GenAfterCover
  \/ GenHcSubmit
  \/ GenHcProgress
  \/ GenHcFinish
  \/ RfStart
  \/ RfSubmit
  \/ RfFinish
  \/ CapCollect

NextCap ==
  \/ nops = 0 /\ StartGeneration(TaskOrder[1], CapRunPages)
  \/ nops = 1 /\ RetryFailedImages(TaskOrder[1], CapPages)
  \/ CapPull
  \/ CapStart
  \/ CapFinish

InitCap == Init /\ high_concurrency = TRUE /\ provider_type = "google_genai"

SpecCap ==
  /\ InitCap
  /\ [][NextCap]_vars
  /\ WF_vars(CapPull) /\ WF_vars(CapStart) /\ WF_vars(CapFinish)

\* one start_generation run consumed to its end, then one retry operation
\* on its task; between operations the task's state may be cleaned up and
\* the service may be reset
NextStore ==
  \/ \E ps \in PageLists : nops = 0 /\ StartGeneration(TaskOrder[1], ps)
  \/ StreamStep
  \/ \E t \in Tasks : CleanupTask(t)
  \/ ResetImageService
  \/ \E p \in RetryPages, u \in BOOLEAN, ok \in AdapterOutcomes :
       nops = 1 /\ RetrySingleImage(TaskOrder[1], p, u, ok)
  \/ \E p \in RetryPages, u \in BOOLEAN, ok \in AdapterOutcomes :
       nops = 1 /\ RegenerateImage(TaskOrder[1], p, u, ok)
  \/ \E ps \in RetryLists : nops = 1 /\ RetryFailedImages(TaskOrder[1], ps)
  \/ RfStart
  \/ RfSubmit
  \/ \E i \in DOMAIN pool.futures : RfCollect(i)
  \/ RfFinish

SpecStore == Init /\ [][NextStore]_vars

\* one start_generation run on a service constructed from a provider
\* configuration with or without an api_key: ImageService.__init__ raises
\* what the generator's __init__ raises (line 53), and there is no service
\* then
InitKey ==
  /\ InitService /\ active_brand = NoStyle /\ chat = NoChat /\ prompt = NoPrompt
  /\ history = NoRecord
  /\ api_key \in BOOLEAN
  /\ GeneratorInit(provider_type, api_key) = "constructed"

SpecKey == InitKey /\ [][NextRun]_vars

\* a record for the task of one sequential run, updated by its client and
\* synchronised with the task directory at any time
InitSeq == Init /\ high_concurrency = FALSE /\ provider_type = "google_genai"
NextHistory ==
  \/ \E n \in 0..(MaxIndex + 1) : CreateRecord(TaskOrder[1], n)
  \/ \E status \in StatusArgs : UpdateRecord(status)
  \/ \E t \in Tasks : ScanAndSyncTaskImages(t)
  \/ \E ps \in PageLists : nops = 0 /\ StartGeneration(TaskOrder[1], ps)
  \/ GenStart
  \/ \E ok \in AdapterOutcomes : GenCover(ok)
  \/ GenAfterCover
  \/ GenSeqNext
  \/ \E ok \in AdapterOutcomes : GenSeqGenerate(ok)

SpecHistory == InitSeq /\ [][NextHistory]_vars

\* one start_generation run on a task, and a retry_page for another task
\* served by the same instance while the run's stream is being consumed
NextInterleave ==
  \/ \E ps \in PageLists : nops = 0 /\ StartGeneration(TaskOrder[1], ps)
  \/ StreamStep
  \/ \E p \in RetryPages, u \in BOOLEAN, ok \in AdapterOutcomes :
       RetrySingleImageMeanwhile(TaskOrder[2], p, u, ok)

SpecInterleave == InitOne /\ [][NextInterleave]_vars

\* the prompts built for every outline, topic, brand style and template
NextPrompt ==
  \E full_outline, user_topic \in Texts, brand_style \in BrandStyles,
     short \in BOOLEAN :
    GeneratePrompt(full_outline, user_topic, brand_style, short)

SpecPrompt == Init /\ [][NextPrompt]_vars

\* the chat-completion responses the two generators parse
NextChat == \E g \in ChatGenerators, content \in Contents : ChatResponse(g, content)

SpecChat == Init /\ [][NextChat]_vars

\* one run on a task, then one retry of any kind on it, with the active
\* brand changing between the operations
NextBrand ==
  \/ \E ps \in PageLists : nops = 0 /\ StartGeneration(TaskOrder[1], ps)
  \/ StreamStep
  \/ \E style \in BrandStyles : Idle /\ ActivateBrand(style)
  \/ \E p \in RetryPages, u \in BOOLEAN, ok \in AdapterOutcomes :
       nops = 1 /\ RetrySingleImage(TaskOrder[1], p, u, ok)
  \/ \E p \in RetryPages, u \in BOOLEAN, ok \in AdapterOutcomes :
       nops = 1 /\ RegenerateImage(TaskOrder[1], p, u, ok)
  \/ \E ps \in RetryLists : nops = 1 /\ RetryFailedImages(TaskOrder[1], ps)
  \/ RfStart
  \/ RfSubmit
  \/ \E i \in DOMAIN pool.futures : RfCollect(i)
  \/ RfFinish

SpecBrand == InitOne /\ [][NextBrand]_vars

(* ------------------------------ properties ----------------------------- *)
\* the indices of a page list, and of the pages submitted for a task
IndexSet(pages) == { pages[i].index : i \in DOMAIN pages }
Submitted(task_id) == IndexSet(task_states[task_id].pages)
Generated(task_id) == DOMAIN task_states[task_id].generated
Failed(task_id) == DOMAIN task_states[task_id].failed

\* positions of the stream's events
Terminal(i) == events[i].event \in {"complete", "error"}
Generating(i) ==
  events[i].event = "progress" /\ events[i].data.status = "generating"
InPhase(i, phase) == events[i].event # "finish" /\ events[i].data.phase = phase
TerminalsOf(index) ==
  { i \in DOMAIN events : Terminal(i) /\ events[i].data.index = index }

RunStarted == gen.op = "generate" /\ gen.pc \notin {"none", "start"}
RunFinished == gen.op = "generate" /\ gen.pc = "finished"
RetryFinished == gen.op = "retry_failed" /\ gen.pc = "finished"

\* C1: after any sequence of operations, for every task the key sets of its
\* generated and failed maps are disjoint, and every key of either map is
\* the index of a page submitted to start_generation for that task
C1_MapsDisjointWithinSubmitted ==
  \A t \in DOMAIN task_states :
    /\ Generated(t) \cap Failed(t) = {}
    /\ (Generated(t) \cup Failed(t)) \subseteq Submitted(t)

\* the part of C1 that the code keeps: no index is in both maps
C1_MapsDisjoint ==
  \A t \in DOMAIN task_states : Generated(t) \cap Failed(t) = {}

\* a retry of a page the task never held has put its index into generated
C1_ForeignKey ==
  \E t \in DOMAIN task_states :
    /\ Submitted(t) # {}
    /\ ret.called /\ ret.success /\ ret.task_id = t
    /\ ret.index \in Generated(t) \ Submitted(t)

\* C2: when every generation call of a start_generation run over N pages
\* succeeds, the finish event reports completed = N, failed = 0, success
C2_AllSucceedAllCompleted ==
  (RunFinished /\ \A i \in DOMAIN events : events[i].event # "error")
    => LET f == events[Len(events)].data
       IN  /\ f.completed = Len(gen.pages)
           /\ f.failed = 0
           /\ f.success

\* a run whose calls all succeeded and whose finish event counts fewer
\* pages than were submitted
C2_PageMissing ==
  /\ RunFinished
  /\ \A i \in DOMAIN events : events[i].event # "error"
  /\ events[Len(events)].data.success
  /\ events[Len(events)].data.completed < Len(gen.pages)

\* C3: a successful retry of a page whose index is in failed leaves the
\* index absent from failed and present in generated; in particular, once
\* every failed page of a partially failed run has been retried with
\* success, failed is empty and generated holds every submitted index
C3_RetryMovesToGenerated ==
  /\ (ret.called /\ ret.success /\ ret.was_failed)
       => /\ ret.index \notin Failed(ret.task_id)
          /\ ret.index \in Generated(ret.task_id)
  /\ (RetryFinished /\ TaskExists(gen.task_id))
       => /\ \A i \in DOMAIN events :
               (events[i].event = "complete"
                  /\ events[i].data.index \in gen.failed_before)
                 => /\ events[i].data.index \notin Failed(gen.task_id)
                    /\ events[i].data.index \in Generated(gen.task_id)
          /\ (/\ gen.failed_before # {}
              /\ gen.failed_before \subseteq IndexSet(gen.pages)
              /\ gen.failed_count = 0)
               => /\ Failed(gen.task_id) = {}
                  /\ Submitted(gen.task_id) \subseteq Generated(gen.task_id)

\* the first part of C3 alone, which the code keeps
C3_RetriedIndexMoves ==
  /\ (ret.called /\ ret.success /\ ret.was_failed)
       => /\ ret.index \notin Failed(ret.task_id)
          /\ ret.index \in Generated(ret.task_id)
  /\ (RetryFinished /\ TaskExists(gen.task_id))
       => \A i \in DOMAIN events :
            (events[i].event = "complete"
               /\ events[i].data.index \in gen.failed_before)
              => /\ events[i].data.index \notin Failed(gen.task_id)
                 /\ events[i].data.index \in Generated(gen.task_id)

\* every failed page was retried with success, failed is empty, and a
\* submitted page is still in neither map
C3_HealedButIncomplete ==
  /\ RetryFinished /\ TaskExists(gen.task_id)
  /\ gen.failed_before # {}
  /\ gen.failed_before \subseteq IndexSet(gen.pages)
  /\ gen.failed_count = 0
  /\ Failed(gen.task_id) = {}
  /\ ~(Submitted(gen.task_id) \subseteq Generated(gen.task_id))

\* C4: every failed generation attempt for a page, in start_generation,
\* retry_page, regenerate of a page that is done, or retry_failed_pages, is
\* reported to the caller as an error and leaves the page's index in the
\* task's failed map with the error of that attempt
C4_FailureRecorded ==
  /\ (ret.called /\ ~ret.success /\ TaskExists(ret.task_id))
       => /\ ret.error # NoError
          /\ ret.index \in Failed(ret.task_id)
          /\ task_states[ret.task_id].failed[ret.index] = ret.error
  /\ (gen.op \in {"generate", "retry_failed"} /\ TaskExists(gen.task_id))
       => \A i \in DOMAIN events :
            events[i].event = "error"
              => /\ events[i].data.index \in Failed(gen.task_id)
                 /\ task_states[gen.task_id].failed[events[i].data.index]
                      = events[i].data.message

\* what the code keeps of C4: a failure of a start_generation run is
\* reported and recorded with its error
C4_RunFailureRecorded ==
  RunStarted
    => \A i \in DOMAIN events :
         events[i].event = "error"
           => /\ events[i].data.index \in Failed(gen.task_id)
              /\ task_states[gen.task_id].failed[events[i].data.index]
                   = events[i].data.message

\* a regenerate of a page that is done has failed, and the page is in
\* generated only
C4_FailureUnrecorded ==
  /\ ret.called /\ ~ret.success /\ TaskExists(ret.task_id)
  /\ ret.index \in Generated(ret.task_id) \ Failed(ret.task_id)

\* C5: in high-concurrency mode, when the caller stops consuming the stream
\* after the non-cover pages were submitted, the pages' generations still
\* run to their end and every outcome ends up in the task's generated or
\* failed map
C5_AbandonedOutcomesRecorded ==
  (/\ high_concurrency
   /\ gen.op = "generate" /\ gen.pc = "abandoned"
   /\ pool.futures # <<>>
   /\ PoolDrained)
    => \A i \in DOMAIN pool.futures :
         LET r == pool.futures[i].result
         IN  IF r.success
             THEN r.index \in Generated(gen.task_id)
             ELSE r.index \in Failed(gen.task_id)

\* an abandoned run whose workers have all returned, one of them with a
\* saved image that neither map knows
C5_SavedButUnrecorded ==
  /\ high_concurrency
  /\ gen.op = "generate" /\ gen.pc = "abandoned"
  /\ PoolDrained
  /\ \E i \in DOMAIN pool.futures :
       LET r == pool.futures[i].result
       IN  /\ r.success
           /\ FileExists(disk, gen.task_id, r.filename)
           /\ r.index \notin Generated(gen.task_id) \cup Failed(gen.task_id)

\* C6: every image generated for a task is written inside that task's own
\* directory, whichever operation produced it and whatever ran before
C6_FilesInOwnDirectory ==
  \A d \in Tasks : \A fn \in DOMAIN disk[d] : disk[d][fn].task = d

\* what the code keeps of C6: start_generation, retry_page and regenerate
\* write into the directory of the task they name
C6_SettingOperationsOwnDirectory ==
  /\ RunStarted
       => \A i \in DOMAIN events :
            events[i].event = "complete"
              => /\ FileExists(disk, gen.task_id, events[i].data.image_url[2])
                 /\ disk[gen.task_id][events[i].data.image_url[2]].task = gen.task_id
  /\ (ret.called /\ ret.success)
       => /\ FileExists(disk, ret.task_id, ret.filename)
          /\ disk[ret.task_id][ret.filename].task = ret.task_id

\* retry_failed_pages reported an image of its task done, and the file is
\* in another task's directory
C6_RetryInForeignDirectory ==
  /\ gen.op = "retry_failed"
  /\ \E i \in DOMAIN events :
       /\ events[i].event = "complete"
       /\ \E d \in Tasks \ {gen.task_id} :
            /\ FileExists(disk, d, events[i].data.image_url[2])
            /\ disk[d][events[i].data.image_url[2]].task = gen.task_id

\* C7: in every start_generation run with at least one page the first
\* event is the cover page's progress event (phase cover), no content-phase
\* event comes before the cover's complete/error event, and exactly one
\* finish event is emitted, as the last event of the stream
C7_CoverFirstFinishLast ==
  (RunStarted /\ gen.pages # <<>>)
    => /\ events # <<>>
       /\ Generating(1) /\ InPhase(1, "cover")
       /\ \E k \in DOMAIN gen.pages :
            /\ gen.pages[k].index = events[1].data.index
            /\ IF \E j \in DOMAIN gen.pages : IsCover(gen.pages[j])
               THEN IsCover(gen.pages[k])
               ELSE k = 1
       /\ \A i \in DOMAIN events :
            InPhase(i, "content")
              => \E j \in 1..(i - 1) :
                   /\ Terminal(j) /\ InPhase(j, "cover")
                   /\ events[j].data.index = events[1].data.index
       /\ \A i \in DOMAIN events : events[i].event = "finish" => i = Len(events)
       /\ gen.pc = "finished" => events[Len(events)].event = "finish"

\* a finished high-concurrency run over three pages, one of which failed
C7_FinishedRun ==
  /\ RunFinished /\ high_concurrency
  /\ Len(gen.pages) = 3
  /\ IsCover(gen.pages[2])
  /\ Len(events) >= 7
  /\ \E i \in DOMAIN events : events[i].event = "error"
  /\ events[Len(events)].event = "finish"

\* the fan-out phase of a start_generation run
ContentTerminals ==
  { i \in DOMAIN events : Terminal(i) /\ InPhase(i, "content") }
ContentGenerating ==
  { i \in DOMAIN events : Generating(i) /\ InPhase(i, "content") }
Announced ==
  \A x \in IndexSet(gen.other_pages) :
    \E i \in ContentGenerating : events[i].data.index = x
\* the future of the page a fan-out event is about, and its place in the
\* order in which the pool's calls returned
FutureOf(i) ==
  CHOOSE f \in DOMAIN pool.futures :
    pool.futures[f].page.index = events[i].data.index
DonePos(f) == CHOOSE n \in DOMAIN pool.done_order : pool.done_order[n] = f
PoolWorkStarted ==
  \E f \in DOMAIN pool.futures : pool.futures[f].state # "queued"

C9_EveryPageOnce ==
  /\ RunStarted
       => /\ Len(gen.cover_page) + Len(gen.other_pages) = Len(gen.pages)
          /\ gen.other_pages =
               SelectSeq(gen.pages, LAMBDA p : gen.cover_page # <<p>>)
          /\ \A k \in DOMAIN gen.pages :
               Cardinality(TerminalsOf(gen.pages[k].index)) <= 1
  /\ RunFinished
       => \A k \in DOMAIN gen.pages :
            Cardinality(TerminalsOf(gen.pages[k].index)) = 1

\* what the code keeps of C9: no page is attempted twice, and the pages of
\* the partition are attempted once each
C9_PartitionPagesOnce ==
  /\ RunStarted
       => \A k \in DOMAIN gen.pages :
            Cardinality(TerminalsOf(gen.pages[k].index)) <= 1
  /\ RunFinished
       => \A x \in IndexSet(gen.cover_page) \cup IndexSet(gen.other_pages) :
            Cardinality(TerminalsOf(x)) = 1

\* a finished run in which a submitted page got no terminal event
C9_PageSkipped ==
  /\ RunFinished
  /\ \E k \in DOMAIN gen.pages : TerminalsOf(gen.pages[k].index) = {}

NoCoverTyped == \A k \in DOMAIN gen.pages : ~IsCover(gen.pages[k])
\* the events of a phase that are about a page
PhaseIndices(phase) ==
  { events[i].data.index :
      i \in { j \in DOMAIN events : InPhase(j, phase) /\ events[j].data.index # NoIndex } }

\* the list position of the submitted page with this index
PositionOf(index) == CHOOSE k \in DOMAIN gen.pages : gen.pages[k].index = index

\* C10: when no submitted page has type "cover", the first page by list
\* position is generated in the cover phase, and all remaining pages are
\* generated in the fan-out phase keeping their original index values in
\* events, in the task maps and in file names (no renumbering)
C10_FirstPageCoverIndicesKept ==
  (RunStarted /\ gen.pages # <<>> /\ NoCoverTyped)
    => /\ PhaseIndices("cover") = {gen.pages[1].index}
       /\ PhaseIndices("content") \subseteq IndexSet(Tail(gen.pages))
       /\ ~high_concurrency
            => \A a, b \in ContentGenerating :
                 a < b => PositionOf(events[a].data.index)
                            < PositionOf(events[b].data.index)
       /\ \A i \in DOMAIN events :
            events[i].event = "complete"
              => /\ events[i].data.image_url
                      = <<gen.task_id, FilenameOf(events[i].data.index)>>
                 /\ FileExists(disk, gen.task_id, FilenameOf(events[i].data.index))
                 /\ disk[gen.task_id][FilenameOf(events[i].data.index)]
                      = AdapterImage(gen.task_id, events[i].data.index)
                 /\ FileExists(disk, gen.task_id,
                               ThumbnailOf(FilenameOf(events[i].data.index)))
                 /\ events[i].data.index \in Generated(gen.task_id)
                 /\ task_states[gen.task_id].generated[events[i].data.index]
                      = FilenameOf(events[i].data.index)
       /\ \A i \in DOMAIN events :
            events[i].event = "error" => events[i].data.index \in Failed(gen.task_id)
       /\ Generated(gen.task_id) \cup Failed(gen.task_id) \subseteq IndexSet(gen.pages)
       /\ gen.pc = "finished"
            => /\ PhaseIndices("content") = IndexSet(Tail(gen.pages))
               /\ Generated(gen.task_id) \cup Failed(gen.task_id) = IndexSet(gen.pages)
               /\ events[Len(events)].data.failed_indices
                    = IndexList(gen.failed_pages)
               /\ IndexSet(gen.failed_pages) = Failed(gen.task_id)

\* a finished run without a cover-typed page whose pages' indices differ
\* from their positions, the last page generated in the fan-out phase
C10_GapIndicesKept ==
  /\ RunFinished /\ NoCoverTyped
  /\ Len(gen.pages) = 2
  /\ gen.pages[1].index = 1 /\ gen.pages[2].index = 2
  /\ \E i \in DOMAIN events :
       /\ events[i].event = "complete" /\ InPhase(i, "content")
       /\ events[i].data.index = 2
  /\ FileExists(disk, gen.task_id, FilenameOf(2))

\* the error event of the cover phase, if there is one
CoverErrors ==
  { i \in DOMAIN events : events[i].event = "error" /\ InPhase(i, "cover") }
\* the _generate_single_image calls made for a page index
CallsOf(index) == { c \in calls : c.index = index }

\* C11: if the cover generation fails, an error event with retryable = true
\* is emitted for the cover index, the cover index is recorded in failed,
\* cover_image stays unset, and every non-cover page is still attempted,
\* without a cover reference, before finish is emitted
C11_CoverFailureDoesNotAbort ==
  (RunStarted /\ \E c \in CallsOf(gen.cover_page[1].index) : ~c.ok)
    => /\ Cardinality(CoverErrors) = 1
       /\ \A i \in CoverErrors :
            /\ events[i].data.index = gen.cover_page[1].index
            /\ events[i].data.retryable
       /\ gen.cover_page[1].index \in Failed(gen.task_id)
       /\ gen.cover_page[1].index \notin Generated(gen.task_id)
       /\ task_states[gen.task_id].cover_image = NoImage
       /\ \A c \in calls : c.reference_image = NoImage
       /\ gen.pc = "finished"
            => \A k \in DOMAIN gen.other_pages :
                 /\ Cardinality(CallsOf(gen.other_pages[k].index)) = 1
                 /\ Cardinality(TerminalsOf(gen.other_pages[k].index)) = 1
                 /\ \A i \in TerminalsOf(gen.other_pages[k].index) :
                      i < Len(events)

\* a finished run whose cover failed and whose two other pages were both
\* attempted, one with success
C11_CoverFailedOthersAttempted ==
  /\ RunFinished
  /\ CoverErrors # {}
  /\ Len(gen.other_pages) = 2
  /\ \A k \in DOMAIN gen.other_pages : CallsOf(gen.other_pages[k].index) # {}
  /\ \E c \in calls : c.ok

\* every non-cover page of the run has been attempted, has its terminal
\* event and is in one of the task's maps
OthersSettled ==
  \A k \in DOMAIN gen.other_pages :
    /\ CallsOf(gen.other_pages[k].index) # {}
    /\ TerminalsOf(gen.other_pages[k].index) # {}
    /\ gen.other_pages[k].index \in Generated(gen.task_id) \cup Failed(gen.task_id)
    /\ (\E c \in CallsOf(gen.other_pages[k].index) : c.ok)
         <=> gen.other_pages[k].index \in Generated(gen.task_id)

\* C12: when every adapter call returns and the caller keeps pulling
\* events, every non-cover page eventually reaches done or failed whatever
\* the outcomes of the other pages, and the finish event is eventually
\* emitted: a failed page never keeps a sibling from being attempted or
\* reported
C12_EveryPageSettles ==
  (gen.op = "generate") ~> (RunFinished /\ OthersSettled)

\* a finished run in which one non-cover page failed and a sibling after
\* it, and one before it, were generated
C12_SiblingsOfFailedPage ==
  /\ RunFinished /\ OthersSettled
  /\ Len(gen.other_pages) >= 2
  /\ \E c \in CallsOf(gen.other_pages[1].index) : ~c.ok
  /\ \E c \in CallsOf(gen.other_pages[2].index) : c.ok

\* the indices of the stream's events of one kind
IndicesOf(kind) ==
  { events[i].data.index : i \in { j \in DOMAIN events : events[j].event = kind } }
SeqToSet(q) == { q[i] : i \in DOMAIN q }

\* C13: the finish event of every run reports total = the number of
\* submitted pages, completed = the number of pages that ended done,
\* failed = the number of pages that ended failed, failed_indices = exactly
\* the indices of the failed pages, and success = true iff failed = 0
C13_FinishSummary ==
  RunFinished
    => LET f == events[Len(events)].data
       IN  /\ events[Len(events)].event = "finish"
           /\ f.total = Len(gen.pages)
           /\ f.completed = Cardinality(Generated(gen.task_id))
           /\ f.completed = Cardinality(IndicesOf("complete"))
           /\ f.completed = Cardinality({ c \in calls : c.ok })
           /\ f.failed = Cardinality(Failed(gen.task_id))
           /\ f.failed = Cardinality(IndicesOf("error"))
           /\ f.failed = Cardinality({ c \in calls : ~c.ok })
           /\ SeqToSet(f.failed_indices) = Failed(gen.task_id)
           /\ Len(f.failed_indices) = f.failed
           /\ SeqToSet(f.images) = { FilenameOf(x) : x \in Generated(gen.task_id) }
           /\ f.success <=> (f.failed = 0)

\* a finished run with a generated page and two failed pages, told apart
\* in the summary
C13_MixedSummary ==
  /\ RunFinished
  /\ events[Len(events)].data.completed = 1
  /\ events[Len(events)].data.failed = 2
  /\ ~events[Len(events)].data.success
  /\ Len(events[Len(events)].data.failed_indices) = 2

\* what a run over `pages` must end with, given the outcome of each page's
\* generation call: a function of the pages and the outcomes alone
Attempted(pages) == IndexSet(CoverPageOf(pages)) \cup IndexSet(OtherPagesOf(pages))
ExpectedGenerated(pages, okcalls) == { x \in Attempted(pages) : x \in okcalls }
ExpectedFailed(pages, okcalls) == { x \in Attempted(pages) : x \notin okcalls }
\* the indices of the pages whose generation call returned bytes
OkCalls == { c.index : c \in { d \in calls : d.ok } }

\* C14: for the same page list and the same outcome of each generation
\* call, a run with high_concurrency and a run without it end with the
\* same key sets of generated and of failed and the same finish counts,
\* for every completion order of the workers: both end with the sets and
\* counts that the pages and the outcomes determine, no page dropped or
\* duplicated
C14_ModeIndependentResult ==
  RunFinished
    => /\ { c.index : c \in calls } = Attempted(gen.pages)
       /\ Cardinality(calls) = Cardinality(Attempted(gen.pages))
       /\ Generated(gen.task_id) = ExpectedGenerated(gen.pages, OkCalls)
       /\ Failed(gen.task_id) = ExpectedFailed(gen.pages, OkCalls)
       /\ events[Len(events)].data.total = Len(gen.pages)
       /\ events[Len(events)].data.completed
            = Cardinality(ExpectedGenerated(gen.pages, OkCalls))
       /\ events[Len(events)].data.failed
            = Cardinality(ExpectedFailed(gen.pages, OkCalls))
       /\ \A x \in Attempted(gen.pages) : Cardinality(TerminalsOf(x)) = 1

\* a finished high-concurrency run whose two workers returned in the
\* reverse of the submission order, one with a failure
C14_ReverseCompletion ==
  /\ RunFinished /\ high_concurrency
  /\ pool.done_order = <<2, 1>>
  /\ pool.futures[1].result.success /\ ~pool.futures[2].result.success
  /\ Generated(gen.task_id) = ExpectedGenerated(gen.pages, OkCalls)

\* the same pages with the same outcomes, run without high_concurrency
C14_SequentialTwin ==
  /\ RunFinished /\ ~high_concurrency
  /\ Len(gen.other_pages) = 2
  /\ gen.other_pages[1].index \in OkCalls /\ gen.other_pages[2].index \notin OkCalls
  /\ Generated(gen.task_id) = ExpectedGenerated(gen.pages, OkCalls)

\* C15: during the fan-out of a high-concurrency run and during a
\* retry_failed_pages batch at most 15 page generations are in flight at
\* any moment, however many pages were submitted; the pages beyond the cap
\* wait and are all eventually started
C15_AtMostFifteenInFlight ==
  /\ [](Cardinality(Running) <= 15)
  /\ (pool.futures # <<>>) ~> (Queued = {})

\* the pool is full and a submitted page waits
C15_PoolFullPageWaits ==
  /\ Len(pool.futures) > 15
  /\ Cardinality(Running) = 15
  /\ Queued # {}

\* the non-cover pages in submission order, and the k-th terminal event of
\* the fan-out phase
SubmittedOthers ==
  SelectSeq(gen.pages, LAMBDA p : p \in SeqToSet(gen.other_pages))
ContentTerminalSeq ==
  SelectSeq([i \in DOMAIN events |-> [pos |-> i, ev |-> events[i]]],
            LAMBDA e : e.pos \in ContentTerminals)

\* C16: without high_concurrency the non-cover pages are generated strictly
\* one at a time in submission order: the generation of page k+1 does not
\* start before the complete/error event of page k has been emitted, and
\* the terminal events appear in submission order
C16_SequentialInOrder ==
  (RunStarted /\ ~high_concurrency)
    => /\ pool.futures = <<>>
       /\ Len(ContentTerminalSeq) <= Len(SubmittedOthers)
       /\ \A k \in DOMAIN ContentTerminalSeq :
            ContentTerminalSeq[k].ev.data.index = SubmittedOthers[k].index
       /\ \A k \in DOMAIN SubmittedOthers :
            /\ CallsOf(SubmittedOthers[k].index) # {}
                 <=> k <= Len(ContentTerminalSeq)
            /\ Cardinality(CallsOf(SubmittedOthers[k].index)) <= 1
       /\ \A i \in ContentGenerating :
            \A j \in ContentTerminals :
              PositionOf(events[j].data.index) < PositionOf(events[i].data.index)
                => j < i

\* a sequential run between two pages: the first page's terminal event is
\* out, the second page is announced and not yet generated
C16_BetweenTwoPages ==
  /\ RunStarted /\ ~high_concurrency
  /\ gen.pc = "seq_generate" /\ gen.k = 2
  /\ Len(ContentTerminalSeq) = 1
  /\ CallsOf(SubmittedOthers[2].index) = {}

\* the task's compressed cover is, or is not, available in memory; the
\* image of the task's cover page is on disk
CoverInMemory(t) == TaskExists(t) /\ task_states[t].cover_image # NoImage
CoverOnDisk(t) ==
  /\ cover_of[t] # NoIndex
  /\ FileExists(disk, t, FilenameOf(cover_of[t]))
  /\ disk[t][FilenameOf(cover_of[t])] = AdapterImage(t, cover_of[t])
DiskCover(t) == compress_image(disk[t][FilenameOf(cover_of[t])], 200)

\* C17: for retry_page with use_reference = true and for
\* retry_failed_pages, when the task's compressed cover is not available in
\* memory but the task's cover image is on disk, the reference image handed
\* to the page generation is the cover read back from disk and
\* recompressed: the retry is never run without a cover reference then
\* (stated for retries of pages other than the cover page itself)
C17_RetryFallsBackToDiskCover ==
  /\ (/\ ret.called /\ ret.use_reference
      /\ ret.index # cover_of[ret.task_id]
      /\ ~CoverInMemory(ret.task_id) /\ CoverOnDisk(ret.task_id))
       => \A c \in calls : c.reference_image = DiskCover(ret.task_id)
  /\ (/\ gen.op = "retry_failed"
      /\ cover_of[gen.task_id] \notin IndexSet(gen.pages)
      /\ ~CoverInMemory(gen.task_id) /\ CoverOnDisk(gen.task_id))
       => \A c \in calls : c.reference_image = DiskCover(gen.task_id)

\* what the code keeps of C17: retry_page falls back to the disk when the
\* cover page is the page with index 0
C17_SinglePageFallbackIndexZero ==
  (/\ ret.called /\ ret.use_reference
   /\ ret.index # cover_of[ret.task_id]
   /\ cover_of[ret.task_id] = 0
   /\ ~CoverInMemory(ret.task_id) /\ CoverOnDisk(ret.task_id))
    => \A c \in calls : c.reference_image = DiskCover(ret.task_id)

\* a retry_failed_pages batch run without a reference although the cover
\* is on disk and not in memory
C17_BatchWithoutReference ==
  /\ RetryFinished
  /\ cover_of[gen.task_id] \notin IndexSet(gen.pages)
  /\ ~CoverInMemory(gen.task_id) /\ CoverOnDisk(gen.task_id)
  /\ \E c \in calls : c.reference_image = NoImage

\* a retry_page run with another page's image as its reference: the cover
\* is the page with index 1 and 0.png is a content page
C17_WrongPageAsReference ==
  /\ ret.called /\ ret.use_reference
  /\ ret.index # cover_of[ret.task_id]
  /\ ~CoverInMemory(ret.task_id) /\ CoverOnDisk(ret.task_id)
  /\ cover_of[ret.task_id] # 0
  /\ \E c \in calls :
       /\ c.reference_image # NoImage
       /\ c.reference_image # DiskCover(ret.task_id)

\* the step creates the state of task t anew (generate_images, line 279)
CreatesState(t) == GenStart /\ gen.task_id = t
\* the step is the cover phase of a run on task t ending with success
CoverSucceeds(t) ==
  /\ gen.op = "generate" /\ gen.pc = "cover" /\ gen.task_id = t
  /\ gen'.pc = "after_cover" /\ gen'.failed_pages = <<>>

\* C18: within the lifetime of one task state cover_image is written at
\* most once, from unset to the compressed cover right after the cover
\* succeeds in start_generation, and no later retry_page, regenerate or
\* retry_failed_pages call changes it, nor the task's pages, full_outline,
\* user_images, user_topic or brand_style
C18_CoverImageSetOnce ==
  [][\A t \in (DOMAIN task_states) \cap (DOMAIN task_states') :
       ~CreatesState(t)
         => /\ task_states'[t].pages = task_states[t].pages
            /\ task_states'[t].full_outline = task_states[t].full_outline
            /\ task_states'[t].user_images = task_states[t].user_images
            /\ task_states'[t].user_topic = task_states[t].user_topic
            /\ task_states'[t].brand_style = task_states[t].brand_style
            /\ task_states[t].cover_image # NoImage
                 => task_states'[t].cover_image = task_states[t].cover_image
            /\ task_states'[t].cover_image # task_states[t].cover_image
                 => /\ CoverSucceeds(t)
                    /\ task_states'[t].cover_image
                         = compress_image(AdapterImage(t, cover_of[t]), 200)
    ]_vars

\* a regenerate or retry_page of the task's cover page has succeeded and
\* the task's cover_image is the one its run had set
C18_CoverRetriedReferenceKept ==
  /\ ret.called /\ ret.success
  /\ CoverInMemory(ret.task_id)
  /\ ret.index = cover_of[ret.task_id]
  /\ task_states[ret.task_id].cover_image
       = compress_image(AdapterImage(ret.task_id, ret.index), 200)

\* the run's cover succeeded: its compressed bytes are the run's reference
CoverSucceeded == gen.op = "generate" /\ gen.cover_image_data # NoImage
\* the compressed cover of the run's task
CachedCover == compress_image(AdapterImage(gen.task_id, cover_of[gen.task_id]), 200)
\* the calls made for the run's pages other than its cover page
OtherCalls == { c \in calls : c.index # cover_of[gen.task_id] }

\* C19: in a run whose cover succeeded, the call made to the generator
\* adapter for every non-cover page carries the cached compressed cover as
\* a reference image, for every provider type; the cover page's own call
\* carries no cover reference
C19_CoverReferenceForEveryProvider ==
  CoverSucceeded
    => /\ \A c \in OtherCalls : c.adapter_reference = CachedCover
       /\ \A c \in calls \ OtherCalls :
            c.ok /\ c.reference_image = NoImage => c.adapter_reference = NoImage

\* the same with the provider types whose branch forwards the reference,
\* and the reference_image argument of _generate_single_image for all
C19_CoverReferenceWhereForwarded ==
  CoverSucceeded
    => /\ \A c \in OtherCalls :
            /\ c.reference_image = CachedCover
            /\ provider_type \in {"google_genai", "image_api"}
                 => c.adapter_reference = CachedCover
       /\ \E c \in calls \ OtherCalls : c.ok /\ c.adapter_reference = NoImage

\* a finished run with an OpenAI-compatible provider whose cover succeeded
\* and whose other page was generated without any reference
C19_OpenAiCompatibleWithoutReference ==
  /\ RunFinished /\ CoverSucceeded
  /\ provider_type = "openai_compatible"
  /\ \E c \in OtherCalls :
       c.ok /\ c.reference_image = CachedCover /\ c.adapter_reference = NoImage

\* C20: once a run has created the state of a task_id, get_task_state of
\* it keeps returning that state, never not-found, until cleanup_task is
\* called for that task; no other operation of the running process,
\* cleanup of another task and a provider-configuration update included,
\* removes it
C20_StateKeptUntilCleanup ==
  [][\A t \in DOMAIN task_states :
       get_task_state(t)' = NotFound => CleanupTask(t)]_vars

\* what the code keeps of it: a state leaves the store only by its own
\* cleanup_task or by the reset that follows a configuration update, and
\* the cleanup of another task leaves it as it is
C20_StateKeptUntilCleanupOrReset ==
  [][\A t \in DOMAIN task_states :
       /\ get_task_state(t)' = NotFound
            => CleanupTask(t) \/ ResetImageService
       /\ \A u \in Tasks \ {t} :
            CleanupTask(u) => get_task_state(t)' = get_task_state(t)]_vars

\* a service instance constructed after a configuration update: it has set
\* no task directory and holds no state for the task whose run the former
\* instance served, while the cover of that run is on disk
C20_NotFoundAfterReset ==
  /\ current_task_dir = NoDir
  /\ CoverOnDisk(TaskOrder[1])
  /\ get_task_state(TaskOrder[1]) = NotFound

\* the operation now served is a retry of a task that is in the store: the
\* last retry_single_image call, or a retry_failed_images stream that has
\* read its context
RetryOf(t) ==
  /\ TaskExists(t)
  /\ \/ ret.called /\ ret.task_id = t
     \/ gen.op = "retry_failed" /\ gen.pc # "rf_start" /\ gen.task_id = t
RetryQueries == IF ret.called THEN ret.brand_queries ELSE gen.brand_queries

\* C21: the brand-style provider is queried at most once per
\* start_generation run, and every later retry_page / retry_failed_pages on
\* that task uses the brand style cached in the task at run start, the case
\* where no brand style was active included, without querying the provider
\* again: a brand activated after the run does not change the prompts of
\* retried pages
C21_BrandStyleCachedAtRunStart ==
  /\ gen.op = "generate" => gen.brand_queries <= 1
  /\ \A t \in Tasks :
       RetryOf(t)
         => /\ RetryQueries = 0
            /\ \A c \in calls : c.brand_style = task_states[t].brand_style

\* what the code keeps of it: a run queries the provider once, on its first
\* pull, and a retry uses the cached style without a query when the run
\* cached one
C21_CachedStyleReusedWhenSet ==
  /\ gen.op = "generate"
       => /\ gen.brand_queries = IF gen.pc = "start" THEN 0 ELSE 1
          /\ \A c \in calls : c.brand_style = gen.brand_style
          /\ gen.pc # "start" => task_states[gen.task_id].brand_style = gen.brand_style
  /\ \A t \in Tasks :
       RetryOf(t) /\ task_states[t].brand_style # NoStyle
         => /\ RetryQueries = 0
            /\ \A c \in calls : c.brand_style = task_states[t].brand_style

\* a page of a task whose run cached no brand style has been retried after
\* a brand was activated, and its prompt carries that brand's style
C21_RetryTakesLaterBrand ==
  /\ ret.called /\ RetryOf(ret.task_id)
  /\ task_states[ret.task_id].brand_style = NoStyle
  /\ active_brand # NoStyle
  /\ ret.brand_queries = 1
  /\ \E c \in calls : c.brand_style = active_brand

\* the stream's events of one kind
EventsOf(kind) == { i \in DOMAIN events : events[i].event = kind }

C22_KeylessOnlyImageApi ==
  ~api_key
    => /\ provider_type = "image_api"
       /\ \A c \in calls : ~c.ok
       /\ \A t \in DOMAIN task_states : Generated(t) = {}

Forms == <<"md_url", "md_base64", "data_uri", "url">>
Matches(content, k) ==
  IF k <= 2 THEN FindAll(content, Forms[k]) # {} ELSE StartsWith(content, Forms[k])
FirstForm(content) ==
  IF \E k \in 1..4 : Matches(content, k)
  THEN Min({ k \in 1..4 : Matches(content, k) })
  ELSE 0
\* the outcome was determined by form k of the content
DeterminedBy(outcome, content, k) ==
  /\ outcome.how = IF k \in {1, 4} THEN "download" ELSE "b64decode"
  /\ content[outcome.piece] = Forms[k]
  /\ k <= 2 => outcome.piece = Min(FindAll(content, Forms[k]))
  /\ k > 2 => outcome.piece = 1
ParsedInOrder ==
  IF FirstForm(chat.content) = 0
  THEN chat.outcome.how = "error" /\ chat.outcome.raw = chat.content
  ELSE DeterminedBy(chat.outcome, chat.content, FirstForm(chat.content))

\* C23: in every adapter that uses the chat-completion wire shape
\* (ImageApiGenerator and OpenAICompatibleGenerator) the response text is
\* matched against four forms in this order: markdown image with http(s)
\* URL, markdown image with base64 data URI, bare data URI, bare http(s)
\* URL; the first form that matches determines the result, and a text
\* matching none of them makes the call fail with an error that includes
\* the raw response
C23_FourFormsInOrder ==
  chat.generator \in ChatGenerators => ParsedInOrder

\* what the code keeps of it: ImageApiGenerator parses the four forms in
\* order, and OpenAICompatibleGenerator does when the first form that
\* matches is not the markdown image with a base64 data URI
C23_FourFormsInOrderButMarkdownBase64 ==
  /\ chat.generator = "ImageApiGenerator" => ParsedInOrder
  /\ chat.generator = "OpenAICompatibleGenerator" /\ FirstForm(chat.content) # 2
       => ParsedInOrder

\* OpenAICompatibleGenerator has received a markdown image with a base64
\* data URI and has raised the error
C23_MarkdownBase64Rejected ==
  /\ chat.generator = "OpenAICompatibleGenerator"
  /\ chat.content = <<"md_base64">>
  /\ chat.outcome.how = "error"

\* C24: when the full (non-short) template is used, a missing or empty
\* outline text and a missing or empty user topic are each replaced by a
\* neutral non-empty placeholder in the filled prompt; neither placeholder
\* position is ever filled with the empty string
C24_MissingContextGetsPlaceholder ==
  prompt.built /\ prompt.text.template = "full"
    => /\ prompt.text.full_outline # ""
       /\ prompt.text.user_topic # ""
       /\ ~Truthy(prompt.args.full_outline)
            => prompt.text.full_outline \notin {"", "None"}
       /\ ~Truthy(prompt.args.user_topic)
            => prompt.text.user_topic \notin {"", "None"}

\* what the code keeps of it: the topic position gets the literal when the
\* topic is missing or empty; the outline position gets the outline as it
\* was given
C24_TopicGetsPlaceholderOutlineAsGiven ==
  prompt.built /\ prompt.text.template = "full"
    => /\ prompt.text.user_topic =
            IF Truthy(prompt.args.user_topic) THEN prompt.args.user_topic
                                              ELSE NotProvided
       /\ prompt.text.full_outline = Format(prompt.args.full_outline)

\* the full template has been filled for an empty outline and a topic: the
\* outline position holds the empty string
C24_EmptyOutlineLeftEmpty ==
  /\ prompt.built /\ prompt.text.template = "full"
  /\ prompt.args.full_outline = "" /\ Truthy(prompt.args.user_topic)
  /\ prompt.text.full_outline = ""

\* the positions of a page list that hold a page of the index, and the
\* stream's complete and error events for the index
PositionsOf(pages, index) == { k \in DOMAIN pages : pages[k].index = index }
RetryTerminals == EventsOf("complete") \cup EventsOf("error")

\* C25: every retry_failed_pages stream over a list of k pages emits
\* retry_start first, then exactly one complete or error event per given
\* page and no cover-phase event, then retry_finish last, with
\* retry_finish.total = k, completed + failed = k and success true if and
\* only if failed = 0
C25_RetryStreamShape ==
  gen.op = "retry_failed"
    => /\ gen.pc # "rf_start" => events # <<>> /\ events[1] = RetryStartEv(Len(gen.pages))
       /\ \A i \in DOMAIN events :
            /\ events[i].event = "retry_start" <=> i = 1
            /\ i > 1 /\ i \notin RetryTerminals
                 => /\ events[i].event = "retry_finish"
                    /\ i = Len(events) /\ gen.pc = "finished"
            /\ i \in RetryTerminals => "phase" \notin DOMAIN events[i].data
       /\ Cardinality(RetryTerminals) <= Len(gen.pages)
       /\ gen.pc = "finished"
            => /\ Len(events) = Len(gen.pages) + 2
               /\ \A index \in Indices :
                    Cardinality({ i \in RetryTerminals : events[i].data.index = index })
                      = Cardinality(PositionsOf(gen.pages, index))
               /\ LET finish == events[Len(events)]
                  IN  /\ finish.event = "retry_finish"
                      /\ finish.data.total = Len(gen.pages)
                      /\ finish.data.completed = Cardinality(EventsOf("complete"))
                      /\ finish.data.failed = Cardinality(EventsOf("error"))
                      /\ finish.data.completed + finish.data.failed = Len(gen.pages)
                      /\ finish.data.success <=> finish.data.failed = 0

\* a finished retry of two pages, one generated and one failed again
C25_RetryOneOfTwo ==
  /\ gen.op = "retry_failed" /\ gen.pc = "finished"
  /\ Len(gen.pages) = 2
  /\ Cardinality(EventsOf("complete")) = 1
  /\ Cardinality(EventsOf("error")) = 1
  /\ ~events[Len(events)].data.success

\* the transitions update_record documents (history.py lines 225-231, and
\* create_record's new -> draft)
DocumentedTransitions ==
  { <<"new", "draft">>, <<"draft", "generating">>,
    <<"generating", "partial">>, <<"generating", "completed">>,
    <<"generating", "error">>, <<"partial", "generating">>,
    <<"partial", "completed">> }

\* C26: after any sequence of create_record, update_record and
\* scan_and_sync_task_images calls, a history record's status changes only
\* along the documented transitions (new -> draft, draft -> generating,
\* generating -> partial | completed | error, partial -> generating |
\* completed), and the status stored in the index entry equals the status
\* stored in the record file
C26_DocumentedTransitionsOnly ==
  /\ [][history'.status # history.status
          => <<history.status, history'.status>> \in DocumentedTransitions]_vars
  /\ [](history.exists => history.index_status = history.status)

\* what the code keeps of it: a record is created as a draft, and the index
\* entry holds the status of the record file unless that is the empty
\* string
C26_IndexFollowsNonEmptyStatus ==
  /\ [][history'.status # history.status /\ ~history.exists
          => history'.status = "draft"]_vars
  /\ [](history.exists /\ history.status # ""
          => history.index_status = history.status)

\* a scan has taken a draft record straight to completed: every page of
\* its outline has an image in the task directory
C26_DraftScannedToCompleted ==
  /\ history.exists
  /\ history.previous = "draft" /\ history.status = "completed"
  /\ history.page_count > 0
  /\ Cardinality(history.generated) = history.page_count
  /\ history.generated = ImageFiles(history.task_id)

\* the files of a task directory that hold an image generated for another
\* task
StrayFiles(dir) == { f \in DOMAIN disk[dir] : disk[dir][f].task # dir }

\* C27: when a start_generation run and a retry_page for two different
\* task_ids are interleaved on the same service instance, every image of
\* each task is still saved into that task's own directory and the cover
\* bytes cached for a task are read from that task's own cover file: the
\* shared current_task_dir never makes one task's image land in, or be
\* read from, the other task's directory
C27_TasksKeepTheirDirectories ==
  /\ \A dir \in Tasks : StrayFiles(dir) = {}
  /\ \A t \in DOMAIN task_states :
       /\ task_states[t].cover_image # NoImage
            => /\ task_states[t].cover_image.task = t
               /\ FileExists(disk, t, FilenameOf(cover_of[t]))
       /\ \A index \in Generated(t) :
            FileExists(disk, t, task_states[t].generated[index])

\* what the code keeps of it: an image is saved into the directory that
\* current_task_dir named when its call returned, which is the directory
\* of the operation that started last
C27_SavedWhereLastOperationPoints ==
  [][\A dir \in Tasks :
       StrayFiles(dir)' # StrayFiles(dir) => current_task_dir = dir]_vars

\* the run on the first task has finished with its page reported as done,
\* and the page's image lies in the directory of the second task, whose
\* retry_page came in between
C27_ImageInOtherTaskDirectory ==
  /\ RunFinished /\ gen.task_id = TaskOrder[1]
  /\ ret.called /\ ret.task_id = TaskOrder[2]
  /\ \E index \in Generated(TaskOrder[1]) :
       /\ ~FileExists(disk, TaskOrder[1], FilenameOf(index))
       /\ FilenameOf(index) \in StrayFiles(TaskOrder[2])

\* the step is one of a pool thread: a submitted call starts or returns
WorkerStep ==
  \E i \in (DOMAIN pool.futures) \cap (DOMAIN pool'.futures) :
    /\ pool'.futures[i].state # pool.futures[i].state
    /\ pool'.futures[i].page = pool.futures[i].page
\* the step is a pull of the stream: the generator moves on
PullStep == gen'.op = gen.op /\ gen' # gen
\* the step writes the generated or the failed map of a task
WritesMaps ==
  \E t \in (DOMAIN task_states) \cap (DOMAIN task_states') :
    \/ task_states'[t].generated # task_states[t].generated
    \/ task_states'[t].failed # task_states[t].failed

\* C28: within one start_generation run in high-concurrency mode, and
\* within one retry_failed_pages batch, pool worker threads never write
\* the task's generated / failed maps: every write is performed by the
\* single thread that pulls the event stream, so no two writes to one
\* task's maps are concurrent within a run
C28_OnlyThePullingThreadWritesMaps ==
  [][/\ WorkerStep => ~WritesMaps /\ task_states' = task_states
     /\ WritesMaps /\ gen.op \in {"generate", "retry_failed"} /\ ~Idle
          => PullStep /\ ~WorkerStep]_vars

\* a pool call of a run has returned with an image while another is still
\* running, and the page is in neither map: the pulling thread has not
\* collected it yet
C28_ReturnedNotYetRecorded ==
  /\ gen.op = "generate" /\ high_concurrency
  /\ Running # {}
  /\ \E i \in Finished :
       /\ pool.futures[i].result.success
       /\ i \notin pool.yielded
       /\ pool.futures[i].page.index
            \notin Generated(gen.task_id) \cup Failed(gen.task_id)

\* the pages the operation now served attempts: the cover and the other
\* pages of a run, the pages of a retry batch, the page of a single retry
AttemptedPages ==
  IF ret.called THEN <<[index |-> ret.index]>>
  ELSE IF gen.op = "generate" THEN gen.cover_page \o gen.other_pages
  ELSE gen.pages
\* the operation has attempted all of them
OperationDone == ret.called \/ (gen.pc = "finished" /\ PoolDrained)

DistinctIndices(pages) ==
  \A i, j \in DOMAIN pages : pages[i].index = pages[j].index => i = j
\* the task's maps and the stream agree with the finish event that is the
\* stream's last event
MapsAgreeWithFinish ==
  LET finish == events[Len(events)]
  IN  /\ finish.event = "finish"
      /\ Generated(gen.task_id) = IndicesOf("complete")
      /\ Failed(gen.task_id) = SeqToSet(finish.data.failed_indices)
      /\ finish.data.completed = Cardinality(Generated(gen.task_id))
      /\ finish.data.failed = Cardinality(Failed(gen.task_id))

\* C30: for a run whose pages have pairwise distinct indices and with no
\* other operation on the task_id in between, at the moment finish is
\* emitted the key set of the task's generated map equals the set of
\* indices that received a complete event, the key set of failed equals
\* finish.failed_indices, finish.completed = |generated| and
\* finish.failed = |failed|
C30_MapsAgreeWhenFinishIsEmitted ==
  [][gen.op = "generate" /\ gen.pc # "finished" /\ gen'.pc = "finished"
       /\ DistinctIndices(gen.pages)
       => MapsAgreeWithFinish']_vars

\* a high-concurrency run of three pages has just emitted finish: two
\* pages are in generated, one in failed
C30_FinishAfterTwoDoneOneFailed ==
  /\ RunFinished /\ high_concurrency
  /\ Len(gen.pages) = 3 /\ DistinctIndices(gen.pages)
  /\ Cardinality(Generated(gen.task_id)) = 2
  /\ Cardinality(Failed(gen.task_id)) = 1
  /\ MapsAgreeWithFinish
====
